---- MODULE Spec2Model ----
(***************************************************************************)
(* MKBD calculation and correction engine of src/lib/etl/mkbdCalculator.ts *)
(* (the iteration at lines 664-1520, the one that owns                     *)
(* applyMKBDCorrections).                                                  *)
(*                                                                         *)
(* Amounts are integers in units of 100,000,000 rupiah, so that            *)
(* 25,000,000,000 is 250 and 20% of every equity value used is exact.      *)
(* Text is a sequence of word tokens: joining string cells with ' ' is     *)
(* concatenation of token sequences, and a label regex of the form         *)
(* w1\s*w2\s*...wn is a contiguous run of tokens.  Rows are JavaScript     *)
(* objects: they live in a heap and are reached through references, so     *)
(* that a write through a shared reference is visible to every holder.     *)
(*                                                                         *)
(* A function whose statements use a value several times is written as a   *)
(* chain of operators: fOn, fAt, fFrom, fWith are f from a later statement *)
(* on, the constants computed before that statement being parameters.      *)
(*                                                                         *)
(* Spec is a caller that holds a table set and calls calculateMKBD and     *)
(* applyMKBDCorrections; SpecFormulas adds the callers of the formula      *)
(* registry (getFormulas, updateFormula, resetFormulas).                   *)
(***************************************************************************)
EXTENDS Integers, Sequences, FiniteSets, TLC

----------------------------------------------------------------------------
(* Cell values: number | string | null | undefined *)

Num(x) == [t |-> "num", n |-> x, s |-> <<>>]
\* a string of word tokens w that does not spell a number
Str(w) == [t |-> "str", n |-> 0, s |-> w]
\* a string that spells the number x (e.g. "1.000"); "#" stands for its digits
NumStr(x) == [t |-> "str", n |-> x, s |-> <<"#">>]
Null == [t |-> "null", n |-> 0, s |-> <<>>]
Undefined == [t |-> "undef", n |-> 0, s |-> <<>>]

\* typeof v === 'string'
IsString(c) == c.t = "str"

\* v === null || v === undefined
IsNullish(c) == c.t \in {"null", "undef"}

\* a ?? b
Coalesce(a, b) == IF IsNullish(a) THEN b ELSE a

\* Value Parser: a number is returned unchanged, a string that spells a
\* number yields that number, anything else yields 0.
parseNumericValue(c) ==
  CASE c.t = "num" -> c.n
    [] c.t = "str" -> IF c.s = <<"#">> THEN c.n ELSE 0
    [] OTHER -> 0

\* String(v) for a value that is not null/undefined
StringOf(c) == IF c.t = "num" THEN NumStr(c.n) ELSE c

----------------------------------------------------------------------------
(* Rows: ordered records, a sequence of [k, v] pairs with distinct keys *)

HasKey(row, key) == \E i \in 1..Len(row) : row[i].k = key

\* row[key]
Get(row, key) ==
  IF HasKey(row, key)
    THEN row[CHOOSE i \in 1..Len(row) : row[i].k = key].v
    ELSE Undefined

\* row[key] = val: replaces in place, or appends a new property
Put(row, key, val) ==
  IF HasKey(row, key)
    THEN [i \in 1..Len(row) |-> IF row[i].k = key THEN [k |-> key, v |-> val] ELSE row[i]]
    ELSE Append(row, [k |-> key, v |-> val])

\* lower-casing of the word tokens that occur in tables
LowerTable ==
  [tok \in {"TOTAL", "Total", "ASET", "LANCAR", "LIABILITAS", "EKUITAS",
            "Ranking", "Liabilities", "Modal", "Kerja", "Bersih",
            "Disesuaikan", "(Baris", "Baris", "Lebih", "(Kurang)", "MKBD",
            "Nilai", "Portofolio", "OTHER", "Other"} |->
     CASE tok \in {"TOTAL", "Total"} -> "total"
       [] tok = "ASET" -> "aset"
       [] tok = "LANCAR" -> "lancar"
       [] tok = "LIABILITAS" -> "liabilitas"
       [] tok = "EKUITAS" -> "ekuitas"
       [] tok = "Ranking" -> "ranking"
       [] tok = "Liabilities" -> "liabilities"
       [] tok = "Modal" -> "modal"
       [] tok = "Kerja" -> "kerja"
       [] tok = "Bersih" -> "bersih"
       [] tok = "Disesuaikan" -> "disesuaikan"
       [] tok = "(Baris" -> "(baris"
       [] tok = "Baris" -> "baris"
       [] tok = "Lebih" -> "lebih"
       [] tok = "(Kurang)" -> "(kurang)"
       [] tok = "MKBD" -> "mkbd"
       [] tok = "Nilai" -> "nilai"
       [] tok = "Portofolio" -> "portofolio"
       [] OTHER -> "other"]

ToLowerCase(tok) == IF tok \in DOMAIN LowerTable THEN LowerTable[tok] ELSE tok

\* Object.values(row).filter(v => typeof v === 'string').join(' ')
RECURSIVE RowText(_)
RowText(row) ==
  IF row = <<>> THEN <<>>
  ELSE (IF IsString(Head(row).v) THEN Head(row).v.s ELSE <<>>) \o RowText(Tail(row))

\* pattern.test(text) for a case-insensitive pattern w1\s*w2\s*...\s*wn; pat
\* is the sequence of the sets of lower-case tokens each wi accepts
PatternTest(pat, text) ==
  \E i \in 1..(Len(text) - Len(pat) + 1) :
    \A j \in 1..Len(pat) : ToLowerCase(text[i + j - 1]) \in pat[j]

\* first position at or after from where pat matches, 0 when there is none
FirstMatchEnd(pat, text, from) ==
  LET hits == {i \in from..(Len(text) - Len(pat) + 1) :
                 \A j \in 1..Len(pat) : ToLowerCase(text[i + j - 1]) \in pat[j]}
  IN IF hits = {} THEN 0
     ELSE (CHOOSE i \in hits : \A k \in hits : i <= k) + Len(pat)

\* pattern.test(text) for a pattern seg1.*seg2.*...segn
RECURSIVE GapPatternFrom(_, _, _)
GapPatternFrom(segs, text, from) ==
  IF segs = <<>> THEN TRUE
  ELSE LET e == FirstMatchEnd(Head(segs), text, from)
       IN e # 0 /\ GapPatternFrom(Tail(segs), text, e)

GapPatternTest(segs, text) == GapPatternFrom(segs, text, 1)

----------------------------------------------------------------------------
(* Regular expressions of the module, over the vocabulary of the tables *)

\* headers accepted by /saldo/i
ReSaldo == {"Saldo"}
\* headers accepted by /jumlah/i
ReJumlah == {"Jumlah"}
\* headers accepted by /^total$/i
ReTotalHeader == {"Total"}
\* headers accepted by /kode\s*efek/i (\s* does not accept '_')
ReKodeEfek == {"Kode Efek"}
\* headers accepted by /grup[_\s]*nilai[_\s]*pasar[_\s]*wajar/i
ReGrupNilaiPasarWajar == {"GRUP_NILAI_PASAR_WAJAR"}
\* headers accepted by /nilai\s*pasar\s*wajar/i
ReNilaiPasarWajar == {"Nilai Pasar Wajar"}
\* headers accepted by /grup[_\s]*emiten/i
ReGrupEmiten == {"GRUP_EMITEN"}
\* headers accepted by /nilai\s*rangking\s*liabilit/i
ReNilaiRangkingLiabilities == {"Nilai Rangking Liabilities"}

\* the sheet names that occur in table sets
SheetNames ==
  {"VD5-1", "VD51", "Formulir 1", "VD5-2", "VD52", "Formulir 2", "VD5-9", "VD59",
   "Formulir 9", "VD5-10", "VD5_10", "vd510", "formulir 10", "VD5-100", "Sheet1",
   "Sheet2", "Lampiran"}

\* the characters of a sheet name
Spelling(n) ==
  CASE n = "VD5-1" -> <<"V", "D", "5", "-", "1">>
    [] n = "VD51" -> <<"V", "D", "5", "1">>
    [] n = "Formulir 1" -> <<"F", "o", "r", "m", "u", "l", "i", "r", " ", "1">>
    [] n = "VD5-2" -> <<"V", "D", "5", "-", "2">>
    [] n = "VD52" -> <<"V", "D", "5", "2">>
    [] n = "Formulir 2" -> <<"F", "o", "r", "m", "u", "l", "i", "r", " ", "2">>
    [] n = "VD5-9" -> <<"V", "D", "5", "-", "9">>
    [] n = "VD59" -> <<"V", "D", "5", "9">>
    [] n = "Formulir 9" -> <<"F", "o", "r", "m", "u", "l", "i", "r", " ", "9">>
    [] n = "VD5-10" -> <<"V", "D", "5", "-", "1", "0">>
    [] n = "VD5_10" -> <<"V", "D", "5", "_", "1", "0">>
    [] n = "vd510" -> <<"v", "d", "5", "1", "0">>
    [] n = "formulir 10" -> <<"f", "o", "r", "m", "u", "l", "i", "r", " ", "1", "0">>
    [] n = "VD5-100" -> <<"V", "D", "5", "-", "1", "0", "0">>
    [] n = "Sheet1" -> <<"S", "h", "e", "e", "t", "1">>
    [] n = "Sheet2" -> <<"S", "h", "e", "e", "t", "2">>
    [] n = "Lampiran" -> <<"L", "a", "m", "p", "i", "r", "a", "n">>

\* the flag i on the letters of sheet names
LowerChar(ch) ==
  CASE ch = "V" -> "v" [] ch = "D" -> "d" [] ch = "F" -> "f" [] ch = "S" -> "s"
    [] ch = "L" -> "l" [] OTHER -> ch

\* \w among the characters of sheet names
IsWordChar(ch) == ch \notin {"-", " "}

\* the literal lit, case-insensitive, at position i of text
LiteralAt(text, i, lit) ==
  /\ i >= 1 /\ i + Len(lit) - 1 <= Len(text)
  /\ \A j \in 1..Len(lit) : LowerChar(text[i + j - 1]) = lit[j]

\* \b after the word character at position e of text
BoundaryAfter(text, e) == e = Len(text) \/ ~IsWordChar(text[e + 1])

\* digits then \b, from position i of text
NumberAt(text, i, digits) ==
  LiteralAt(text, i, digits) /\ BoundaryAfter(text, i + Len(digits) - 1)

\* /vd5[\-_]?N\b|formulir[\-_\s]*N\b/i.test(text), digits spelling N
RoleTest(text, digits) ==
  \/ \E i \in 1..Len(text) :
       /\ LiteralAt(text, i, <<"v", "d", "5">>)
       /\ \/ NumberAt(text, i + 3, digits)
          \/ /\ i + 3 <= Len(text) /\ text[i + 3] \in {"-", "_"}
             /\ NumberAt(text, i + 4, digits)
  \/ \E i \in 1..Len(text) :
       /\ LiteralAt(text, i, <<"f", "o", "r", "m", "u", "l", "i", "r">>)
       /\ \E n \in 0..Len(text) :
            /\ \A j \in 1..n : i + 7 + j <= Len(text) /\ text[i + 7 + j] \in {"-", "_", " "}
            /\ NumberAt(text, i + 8 + n, digits)

\* sheet names accepted by /vd5[\-_]?1\b|formulir[\-\_\s]*1\b/i
ReVD51 == {n \in SheetNames : RoleTest(Spelling(n), <<"1">>)}
\* sheet names accepted by /vd5[\-_]?2\b|formulir[\-\_\s]*2\b/i
ReVD52 == {n \in SheetNames : RoleTest(Spelling(n), <<"2">>)}
\* sheet names accepted by /vd5[\-_]?9\b|formulir[\-\_\s]*9\b/i
ReVD59 == {n \in SheetNames : RoleTest(Spelling(n), <<"9">>)}
\* sheet names accepted by /vd5[\-_]?10\b|formulir[\-\_\s]*10\b/i
ReVD510 == {n \in SheetNames : RoleTest(Spelling(n), <<"1", "0">>)}

\* row-label patterns
ReTotalAsetLancar == <<{"total"}, {"aset"}, {"lancar"}>>
ReTotalLiabilitas == <<{"total"}, {"liabilitas"}>>
ReTotalEkuitas == <<{"total"}, {"ekuitas"}>>
ReTotalPortofolio == <<{"total"}, {"portofolio"}>>
\* /total\s*ranking\s*liabilit/i
ReRow12 == <<{"total"}, {"ranking"}, {"liabilit", "liabilitas", "liabilities"}>>
\* /total\s*modal\s*kerja\s*\(baris\s*9\s*dikurangi\s*baris\s*11\s*dan\s*baris\s*12\)/i
ReRow13 == <<{"total"}, {"modal"}, {"kerja"}, {"(baris"}, {"9"}, {"dikurangi"},
             {"baris"}, {"11"}, {"dan"}, {"baris"}, {"12)"}>>
\* /total\s*modal\s*kerja\s*\(baris\s*13\)/i
ReRow15 == <<{"total"}, {"modal"}, {"kerja"}, {"(baris"}, {"13)"}>>
\* /total\s*modal\s*kerja\s*bersih\s*\(baris\s*15\s*ditambah\s*baris\s*17\)/i
ReRow18 == <<{"total"}, {"modal"}, {"kerja"}, {"bersih"}, {"(baris"}, {"15"},
             {"ditambah"}, {"baris"}, {"17)"}>>
\* /total\s*modal\s*kerja\s*bersih\s*\(baris\s*18\)/i
ReRow20 == <<{"total"}, {"modal"}, {"kerja"}, {"bersih"}, {"(baris"}, {"18)"}>>
\* /total\s*modal\s*kerja\s*bersih\s*disesuaikan/i
ReRow102 == <<{"total"}, {"modal"}, {"kerja"}, {"bersih"}, {"disesuaikan"}>>
\* /nilai\s*mkbd\s*yang\s*diwajibkan/i
ReRow103 == <<{"nilai"}, {"mkbd"}, {"yang"}, {"diwajibkan"}>>
\* /mkbd\s*diwajibkan/i
ReMkbdDiwajibkan == <<{"mkbd"}, {"diwajibkan"}>>
\* /lebih\s*\(kurang\)\s*mkbd/i
ReRow104 == <<{"lebih"}, {"(kurang)"}, {"mkbd"}>>

\* preferred 1-based positions of the VD59 target rows
Row12 == 12
Row13 == 13
Row15 == 15
Row18 == 18
Row20 == 20
Row102 == 102
Row103 == 103
Row104 == 104
\* haircut rows: 0-based loop bounds i = 32 .. min(92, length) - 1
HaircutFrom == 32
HaircutTo == 92
\* 25_000_000_000 in units of 100,000,000
DefaultMKBDDiwajibkan == 250

----------------------------------------------------------------------------
(* Formula registry.  customFormulas is a module-level reference to a map
   object from ids to formula definitions; map objects live in formulaMaps
   and are reached through references.  A definition is a record of its
   fields, calculate being the name of its function; no statement writes a
   definition in place. *)

VARIABLES
  formulaMaps,     \* map objects, by reference
  customFormulas   \* let customFormulas: the map object of the registry

DEFAULT_FORMULAS ==
  [id \in {"modalKerja", "rankingLiabilitiesPerItem", "mkbdDisesuaikan"} |->
     CASE id = "modalKerja" ->
            [id |-> "modalKerja", name |-> "Modal Kerja",
             description |-> "Total Aset Lancar - Total Liabilitas - Total Ranking Liabilities",
             formula |-> "TOTAL_ASET_LANCAR - TOTAL_LIABILITAS - TOTAL_RANKING_LIABILITIES",
             inputs |-> <<"TOTAL_ASET_LANCAR", "TOTAL_LIABILITAS", "TOTAL_RANKING_LIABILITIES">>,
             calculate |-> "modalKerja"]
       [] id = "rankingLiabilitiesPerItem" ->
            [id |-> "rankingLiabilitiesPerItem", name |-> "Ranking Liabilities per Item",
             description |-> "Nilai Grup - (20% x Total Ekuitas)",
             formula |-> "NILAI_GRUP - (0.20 * TOTAL_EKUITAS)",
             inputs |-> <<"NILAI_GRUP", "TOTAL_EKUITAS">>,
             calculate |-> "rankingLiabilitiesPerItem"]
       [] id = "mkbdDisesuaikan" ->
            [id |-> "mkbdDisesuaikan", name |-> "MKBD Disesuaikan",
             description |-> "Modal Kerja Bersih dikurangi penyesuaian risiko",
             formula |-> "MODAL_KERJA_BERSIH - TOTAL_PENYESUAIAN_RISIKO",
             inputs |-> <<"MODAL_KERJA_BERSIH", "TOTAL_PENYESUAIAN_RISIKO">>,
             calculate |-> "mkbdDisesuaikan"]]

\* { ...a, ...b }
Spread(a, b) == [k \in DOMAIN a \cup DOMAIN b |-> IF k \in DOMAIN b THEN b[k] ELSE a[k]]

\* properties a map object inherits from Object.prototype; their values are
\* functions, which have no enumerable property of their own
ObjectPrototype == {"constructor", "toString"}

\* if (map[id]): an own definition, or an inherited property
LookupIsTruthy(map, id) == id \in DOMAIN map \/ id \in ObjectPrototype

\* { ...map[id] }
SpreadOfLookup(map, id) == IF id \in DOMAIN map THEN map[id] ELSE [k \in {} |-> k]

\* return { ...customFormulas }: a new map object
getFormulas(maps, ref) == [maps |-> Append(maps, maps[ref]), returned |-> Len(maps) + 1]

\* if (customFormulas[id]) customFormulas[id] = { ...customFormulas[id], ...formula }
updateFormula(maps, ref, id, formula) ==
  IF LookupIsTruthy(maps[ref], id)
    THEN [maps EXCEPT ![ref] = Spread(@, [k \in {id} |-> Spread(SpreadOfLookup(@, id), formula)])]
    ELSE maps

\* customFormulas = { ...DEFAULT_FORMULAS }: a new map object
resetFormulas(maps) ==
  [maps |-> Append(maps, DEFAULT_FORMULAS), customFormulas |-> Len(maps) + 1]

----------------------------------------------------------------------------
(* Sheets: [sheetName, headers, data], data a sequence of row references *)

\* the rows a sheet refers to, read from heap h
RowsOf(h, sheet) == [i \in 1..Len(sheet.data) |-> h[sheet.data[i]]]

\* the sheet as a value: its name, headers and row contents
Deref(h, sheet) ==
  [sheetName |-> sheet.sheetName, headers |-> sheet.headers, rows |-> RowsOf(h, sheet)]

DerefAll(h, ss) == [i \in 1..Len(ss) |-> Deref(h, ss[i])]

\* the value of "no column" (undefined)
NoColumn == "<undefined>"

\* truthiness of a column name: undefined and '' are falsy
Truthy(col) == col \notin {NoColumn, ""}

FirstIndex(S) == CHOOSE i \in S : \A k \in S : i <= k

\* f[lo] + ... + f[hi], the accumulation of a summing loop
RECURSIVE SumRange(_, _, _)
SumRange(f, lo, hi) ==
  IF lo > hi THEN 0
  ELSE IF lo = hi THEN f[lo]
  ELSE LET mid == (lo + hi) \div 2
       IN SumRange(f, lo, mid) + SumRange(f, mid + 1, hi)

findColumnOptional(headers, re) ==
  LET hits == {i \in 1..Len(headers) : headers[i] \in re}
  IN IF hits = {} THEN NoColumn ELSE headers[FirstIndex(hits)]

findColumnByPattern(headers, re) ==
  LET found == findColumnOptional(headers, re)
  IN IF Truthy(found) THEN found
     ELSE IF Len(headers) >= 1 THEN headers[1] ELSE NoColumn

\* the word tokens that hold the character '0': the digits of a string that
\* spells a number, and the note number of a remark
ZeroTokens == {"#", "10"}

\* String(val).includes('0'): every amount is a multiple of 10^8 and 0
\* prints as '0'
IncludesZero(c) == c.t = "num" \/ (c.t = "str" /\ \E i \in 1..Len(c.s) : c.s[i] \in ZeroTokens)

\* number | null as [found, n]
RECURSIVE findNumericFrom(_, _)
findNumericFrom(row, i) ==
  IF i < 1 THEN [found |-> FALSE, n |-> 0]
  ELSE LET val == row[i].v
           num == parseNumericValue(val)
       IN IF ~IsNullish(val) /\ (num # 0 \/ IncludesZero(val))
            THEN [found |-> TRUE, n |-> num]
            ELSE findNumericFrom(row, i - 1)

findNumericValueInRow(row) == findNumericFrom(row, Len(row))

\* the shared body of extractVD51TotalAsetLancar, extractVD52TotalLiabilitas
\* and extractVD52TotalEkuitas: the loop returns at the first labelled row
\* that has a Saldo cell or, failing that, a numeric cell; 0 when none does
extractLabelled(rows, re, saldoCol) ==
  LET hasSaldo(row) == Truthy(saldoCol) /\ ~IsNullish(Get(row, saldoCol))
      returns == {i \in 1..Len(rows) :
                    /\ PatternTest(re, RowText(rows[i]))
                    /\ (hasSaldo(rows[i]) \/ findNumericValueInRow(rows[i]).found)}
      row == rows[FirstIndex(returns)]
  IN IF returns = {} THEN 0
     ELSE IF hasSaldo(row) THEN parseNumericValue(Get(row, saldoCol))
     ELSE findNumericValueInRow(row).n

extractVD51TotalAsetLancar(h, sheet) ==
  extractLabelled(RowsOf(h, sheet), ReTotalAsetLancar,
                  findColumnOptional(sheet.headers, ReSaldo))

extractVD52TotalLiabilitas(h, sheet) ==
  extractLabelled(RowsOf(h, sheet), ReTotalLiabilitas,
                  findColumnOptional(sheet.headers, ReSaldo))

extractVD52TotalEkuitas(h, sheet) ==
  extractLabelled(RowsOf(h, sheet), ReTotalEkuitas,
                  findColumnOptional(sheet.headers, ReSaldo))

\* first row labelled 'mkbd diwajibkan' with a non-null Total cell, else the
\* default minimum
extractVD59MKBDDiwajibkan(h, sheet) ==
  LET rows == RowsOf(h, sheet)
      totalCol == findColumnOptional(sheet.headers, ReTotalHeader)
      returns == {i \in 1..Len(rows) :
                    /\ \/ PatternTest(ReRow103, RowText(rows[i]))
                       \/ PatternTest(ReMkbdDiwajibkan, RowText(rows[i]))
                    /\ Truthy(totalCol)
                    /\ Get(rows[i], totalCol).t # "null"}
  IN IF returns = {} THEN DefaultMKBDDiwajibkan
     ELSE parseNumericValue(Get(rows[FirstIndex(returns)], totalCol))

----------------------------------------------------------------------------
(* Ranking-liabilities pass *)

\* kodeEfek.toLowerCase().includes('other')
IncludesOther(str) == \E i \in 1..Len(str.s) : ToLowerCase(str.s[i]) \in {"other", "others"}

\* the item of one row of the concentration table; skip tells whether the
\* row is passed over
rankingItem(row, rowIndex, totalEkuitas, kodeEfekCol, nilaiPasarCol, grupEmitenCol) ==
  LET batas20Persen == (totalEkuitas * 20) \div 100
      kodeEfek == StringOf(Coalesce(Get(row, kodeEfekCol), Str(<<>>)))
      namaEfek == StringOf(Coalesce(Get(row, "Jenis_Efek"),
                                    Coalesce(Get(row, "Nama_Akun"), kodeEfek)))
      grupNilaiPasarWajar ==
        parseNumericValue(Coalesce(Get(row, "GRUP_NILAI_PASAR_WAJAR"), Get(row, nilaiPasarCol)))
      nilaiPasarWajar == parseNumericValue(Get(row, nilaiPasarCol))
      grupEmiten == StringOf(Coalesce(Get(row, grupEmitenCol),
                                      Coalesce(Get(row, "GRUP_EMITEN"), Str(<<"Non-Grup">>))))
  IN [skip |-> grupNilaiPasarWajar = 0 \/ IncludesOther(kodeEfek),
      detail |->
        [rowIndex |-> rowIndex,
         kodeEfek |-> kodeEfek,
         namaEfek |-> namaEfek,
         nilaiPasarWajar |-> nilaiPasarWajar,
         grupEmiten |-> grupEmiten,
         \* integer part of the percentage
         persentaseTerhadapModal |->
           IF totalEkuitas > 0 THEN (grupNilaiPasarWajar * 100) \div totalEkuitas ELSE 0,
         batas20Persen |-> batas20Persen,
         nilaiRankingLiabilities |-> grupNilaiPasarWajar - batas20Persen,
         formula |-> <<"a - (20% x b)", grupNilaiPasarWajar, totalEkuitas>>]]

calculateVD510RankingLiabilities(h, sheet, totalEkuitas) ==
  LET kodeEfekCol == findColumnByPattern(sheet.headers, ReKodeEfek)
      grupNilaiPasarCol == findColumnByPattern(sheet.headers, ReGrupNilaiPasarWajar)
      nilaiPasarCol == IF Truthy(grupNilaiPasarCol) THEN grupNilaiPasarCol
                       ELSE findColumnByPattern(sheet.headers, ReNilaiPasarWajar)
      grupEmitenCol == findColumnByPattern(sheet.headers, ReGrupEmiten)
      rows == RowsOf(h, sheet)
      items == [i \in 1..Len(rows) |->
                  rankingItem(rows[i], i, totalEkuitas, kodeEfekCol, nilaiPasarCol,
                              grupEmitenCol)]
      pushed == SelectSeq(items, LAMBDA it : ~it.skip)
  IN [j \in 1..Len(pushed) |-> pushed[j].detail]

\* a total that leaves out the items whose charge is negative
getTotalRankingLiabilitiesFromVD510_positiveOnly(vd510Details) ==
  SumRange([j \in 1..Len(vd510Details) |->
              IF vd510Details[j].nilaiRankingLiabilities > 0
                THEN vd510Details[j].nilaiRankingLiabilities ELSE 0],
           1, Len(vd510Details))

getTotalRankingLiabilitiesFromVD510(vd510Details) ==
  SumRange([j \in 1..Len(vd510Details) |-> vd510Details[j].nilaiRankingLiabilities],
           1, Len(vd510Details))

----------------------------------------------------------------------------
(* Correction pass *)

\* a shallow copy: { ...sheet }, the row objects are shared with the source
cloneSheet_sharedRows(h, sheet) == [heap |-> h, sheet |-> sheet]

\* a new sheet object whose rows are new objects holding the same cells
cloneSheet(h, sheet) ==
  [heap |-> h \o RowsOf(h, sheet),
   sheet |-> [sheet EXCEPT !.data = [i \in 1..Len(sheet.data) |-> Len(h) + i]]]

\* sheets.map(cloneSheet)
RECURSIVE cloneAll(_, _)
cloneAll(h, ss) ==
  IF ss = <<>> THEN [heap |-> h, sheets |-> <<>>]
  ELSE LET c == cloneSheet(h, Head(ss))
           rest == cloneAll(c.heap, Tail(ss))
       IN [heap |-> rest.heap, sheets |-> <<c.sheet>> \o rest.sheets]

\* the result 'null' of findRowIndexByText; found indices are 0-based
NullIdx == -1

\* the preferred position is taken without testing the row's text
findRowIndexByText_positionOnly(h, sheet, pattern, preferredRowNumber) ==
  LET rows == RowsOf(h, sheet)
      hits == {i \in 1..Len(rows) : PatternTest(pattern, RowText(rows[i]))}
  IN IF preferredRowNumber # 0 /\ preferredRowNumber >= 1
        /\ preferredRowNumber <= Len(rows)
       THEN preferredRowNumber - 1
       ELSE IF hits = {} THEN NullIdx ELSE FirstIndex(hits) - 1

\* the scan alone, the preferred position being ignored
findRowIndexByText_scanOnly(h, sheet, pattern, preferredRowNumber) ==
  LET rows == RowsOf(h, sheet)
      hits == {i \in 1..Len(rows) : PatternTest(pattern, RowText(rows[i]))}
  IN IF hits = {} THEN NullIdx ELSE FirstIndex(hits) - 1

\* preferredRowNumber = 0 stands for an omitted argument
findRowIndexByText(h, sheet, pattern, preferredRowNumber) ==
  LET rows == RowsOf(h, sheet)
      hits == {i \in 1..Len(rows) : PatternTest(pattern, RowText(rows[i]))}
  IN IF preferredRowNumber # 0 /\ preferredRowNumber >= 1
        /\ preferredRowNumber <= Len(rows) /\ preferredRowNumber \in hits
       THEN preferredRowNumber - 1
       ELSE IF hits = {} THEN NullIdx ELSE FirstIndex(hits) - 1

\* `${kodeEfek}__${grupNilai}`
keyOf(kodeEfek, grupNilai) == <<kodeEfek, grupNilai>>

\* the last of a set of positions, 0 when it is empty
LastIndex(S) == IF S = {} THEN 0 ELSE CHOOSE j \in S : \A k \in S : k <= j

\* detailMap.get(key): position in details of the last detail set under the
\* key, 0 for undefined
detailMapGet(details, key) ==
  LastIndex({j \in 1..Len(details) :
               keyOf(details[j].kodeEfek, details[j].nilaiPasarWajar) = key})

\* detail = first ?? second; if (!detail) continue; row[nilaiRLCol] = ...
overwriteItemWith(row, nilaiRLCol, details, first, second) ==
  IF first # 0 THEN Put(row, nilaiRLCol, Num(details[first].nilaiRankingLiabilities))
  ELSE IF second # 0 THEN Put(row, nilaiRLCol, Num(details[second].nilaiRankingLiabilities))
  ELSE row

\* one turn of the loop 'overwrite per-item rows', the row's cells being read
overwriteItemOf(row, nilaiRLCol, details, kodeEfek, grupNilai, nilaiPasar) ==
  IF kodeEfek.s = <<>> \/ IncludesOther(kodeEfek) THEN row
  ELSE overwriteItemWith(row, nilaiRLCol, details,
                         detailMapGet(details, keyOf(kodeEfek, nilaiPasar)),
                         detailMapGet(details, keyOf(kodeEfek, grupNilai)))

\* one turn of the loop 'overwrite per-item rows'
overwriteItem(row, nilaiRLCol, kodeEfekCol, grupNilaiCol, nilaiPasarCol, details) ==
  overwriteItemOf(row, nilaiRLCol, details,
    StringOf(Coalesce(Get(row, kodeEfekCol), Str(<<>>))),
    parseNumericValue(Coalesce(Get(row, "GRUP_NILAI_PASAR_WAJAR"),
                               IF Truthy(grupNilaiCol) THEN Get(row, grupNilaiCol)
                               ELSE Undefined)),
    parseNumericValue(IF Truthy(nilaiPasarCol) THEN Get(row, nilaiPasarCol) ELSE Undefined))

\* the loop 'overwrite per-item rows' over the rows of updatedSheet
overwriteItems(h0, updatedSheet, nilaiRLCol, kodeEfekCol, grupNilaiCol, nilaiPasarCol, details) ==
  [id \in 1..Len(h0) |->
     IF \E i \in 1..Len(updatedSheet.data) : updatedSheet.data[i] = id
       THEN overwriteItem(h0[id], nilaiRLCol, kodeEfekCol, grupNilaiCol, nilaiPasarCol, details)
       ELSE h0[id]]

\* the block 'overwrite Total Portofolio row'
overwriteTotalPortofolio(h1, updatedSheet, nilaiRLCol, totalPortofolio) ==
  LET totalPortIdx == findRowIndexByText(h1, updatedSheet, ReTotalPortofolio, 0)
  IN IF totalPortIdx # NullIdx
       THEN [id \in 1..Len(h1) |->
               IF id = updatedSheet.data[totalPortIdx + 1]
                 THEN Put(h1[id], nilaiRLCol, Num(totalPortofolio))
                 ELSE h1[id]]
       ELSE h1

\* applyVD510Overwrite from its early return on, the columns being found
applyVD510OverwriteAt(h0, updatedSheet, nilaiRLCol, kodeEfekCol, grupNilaiCol, nilaiPasarCol, details, totalPortofolio) ==
  IF ~Truthy(nilaiRLCol) \/ ~Truthy(kodeEfekCol)
    THEN [heap |-> h0, sheet |-> updatedSheet, updated |-> FALSE]
    ELSE [heap |-> overwriteTotalPortofolio(
                     overwriteItems(h0, updatedSheet, nilaiRLCol, kodeEfekCol,
                                    grupNilaiCol, nilaiPasarCol, details),
                     updatedSheet, nilaiRLCol, totalPortofolio),
          sheet |-> updatedSheet,
          updated |-> TRUE]

\* applyVD510Overwrite on the clone c = [heap, sheet] it made
applyVD510OverwriteOn(c, details, totalPortofolio) ==
  applyVD510OverwriteAt(c.heap, c.sheet,
                        findColumnOptional(c.sheet.headers, ReNilaiRangkingLiabilities),
                        findColumnOptional(c.sheet.headers, ReKodeEfek),
                        findColumnOptional(c.sheet.headers, ReGrupNilaiPasarWajar),
                        findColumnOptional(c.sheet.headers, ReNilaiPasarWajar),
                        details, totalPortofolio)

applyVD510Overwrite(h, sheet, details, totalPortofolio) ==
  applyVD510OverwriteOn(cloneSheet(h, sheet), details, totalPortofolio)

\* the update is recorded but the cell is left as it was
write_recordOnly(st, updatedSheet, rowIdx, col, newValue, formula) ==
  IF rowIdx = NullIdx THEN st
  ELSE LET id == updatedSheet.data[rowIdx + 1]
           row == st.heap[id]
       IN [heap |-> st.heap,
           updates |-> Append(st.updates,
                              [rowIndex |-> rowIdx + 1,
                               rowDescription |-> RowText(row),
                               column |-> col,
                               oldValue |-> parseNumericValue(Get(row, col)),
                               newValue |-> newValue,
                               formula |-> formula])]

\* the prior value is read after the cell has been overwritten
write_oldValueAfterWrite(st, updatedSheet, rowIdx, col, newValue, formula) ==
  IF rowIdx = NullIdx THEN st
  ELSE LET id == updatedSheet.data[rowIdx + 1]
           row == Put(st.heap[id], col, Num(newValue))
       IN [heap |-> [st.heap EXCEPT ![id] = row],
           updates |-> Append(st.updates,
                              [rowIndex |-> rowIdx + 1,
                               rowDescription |-> RowText(row),
                               column |-> col,
                               oldValue |-> parseNumericValue(Get(row, col)),
                               newValue |-> newValue,
                               formula |-> formula])]

\* the helper 'write' of applyVD59Overwrite: st is [heap, updates]
write(st, updatedSheet, rowIdx, col, newValue, formula) ==
  IF rowIdx = NullIdx THEN st
  ELSE LET id == updatedSheet.data[rowIdx + 1]
           oldValue == parseNumericValue(Get(st.heap[id], col))
           row == Put(st.heap[id], col, Num(newValue))
       IN [heap |-> [st.heap EXCEPT ![id] = row],
           updates |-> Append(st.updates,
                              [rowIndex |-> rowIdx + 1,
                               rowDescription |-> RowText(row),
                               column |-> col,
                               oldValue |-> oldValue,
                               newValue |-> newValue,
                               formula |-> formula])]

\* SUM over 0-based i = from .. to-1 of parseNumericValue(rows[i][totalCol])
sumTotalColumn(rows, totalCol, from, to) ==
  SumRange([i \in 1..Len(rows) |-> parseNumericValue(Get(rows[i], totalCol))],
           from + 1, to)

Min(a, b) == IF a < b THEN a ELSE b

\* steps A), B) and C): the writes to the Jumlah column
writeJumlahCells(st, updatedSheet, jumlahCol, row12Idx, row13Idx, row15Idx, row18Idx, totalRankingLiabilities, modalKerja) ==
  IF Truthy(jumlahCol)
    THEN write(write(write(write(st, updatedSheet, row12Idx, jumlahCol,
                                 totalRankingLiabilities,
                                 "VD510: Total Portofolio (Nilai_Rangking_Liabilities)"),
                           updatedSheet, row13Idx, jumlahCol, modalKerja,
                           "TOTAL ASET LANCAR - TOTAL LIABILITAS - TOTAL RANKING LIABILITIES"),
                     updatedSheet, row15Idx, jumlahCol, modalKerja,
                     "Sama persis dengan TOTAL MODAL KERJA (Row 13)"),
               updatedSheet, row18Idx, jumlahCol, modalKerja,
               "Sama persis dengan TOTAL MODAL KERJA (Row 13)")
    ELSE st

\* step C): the write to the Total cell of row 20
writeRow20(st, updatedSheet, totalCol, row20Idx, modalKerja) ==
  IF Truthy(totalCol)
    THEN write(st, updatedSheet, row20Idx, totalCol, modalKerja,
               "Sama persis dengan TOTAL MODAL KERJA (Row 13)")
    ELSE st

\* step E): mkbdDiwajibkan is read from the sheet as step D) left it
writeRow104(st, updatedSheet, totalCol, row103Idx, row104Idx, mkbdDisesuaikan) ==
  write(st, updatedSheet, row104Idx, totalCol,
        mkbdDisesuaikan
          - (IF row103Idx # NullIdx
               THEN parseNumericValue(Get(st.heap[updatedSheet.data[row103Idx + 1]], totalCol))
               ELSE 0),
        "TOTAL MODAL KERJA BERSIH DISESUAIKAN - NILAI MKBD YANG DIWAJIBKAN")

\* steps D) and E) with the surplus/deficit written before the adjusted MKBD
writeRow102And104_surplusFirst(st, updatedSheet, totalCol, row102Idx, row103Idx, row104Idx, mkbdDisesuaikan) ==
  write(writeRow104(st, updatedSheet, totalCol, row103Idx, row104Idx, mkbdDisesuaikan),
        updatedSheet, row102Idx, totalCol, mkbdDisesuaikan,
        "TOTAL MODAL KERJA BERSIH (Row 18) - SUM(Total rows 33..92)")

\* steps D) and E), mkbdDisesuaikan being computed
writeRow102And104(st, updatedSheet, totalCol, row102Idx, row103Idx, row104Idx, mkbdDisesuaikan) ==
  writeRow104(write(st, updatedSheet, row102Idx, totalCol, mkbdDisesuaikan,
                    "TOTAL MODAL KERJA BERSIH (Row 18) - SUM(Total rows 33..92)"),
              updatedSheet, totalCol, row103Idx, row104Idx, mkbdDisesuaikan)

\* the block 'if (totalCol)' of steps D) and E): the haircut sum is read from
\* the sheet as steps A) to C) left it
writeAdjusted(st, updatedSheet, totalCol, row102Idx, row103Idx, row104Idx, modalKerja) ==
  IF Truthy(totalCol)
    THEN writeRow102And104(st, updatedSheet, totalCol, row102Idx, row103Idx, row104Idx,
                           modalKerja
                             - sumTotalColumn(RowsOf(st.heap, updatedSheet), totalCol,
                                              HaircutFrom,
                                              Min(HaircutTo, Len(updatedSheet.data))))
    ELSE st

\* return { sheet: updatedSheet, updates }
sheetAndUpdates(st, updatedSheet) ==
  [heap |-> st.heap, sheet |-> updatedSheet, updates |-> st.updates]

\* applyVD59Overwrite from the row lookups on, the columns being found
applyVD59OverwriteAt(h0, updatedSheet, jumlahCol, totalCol, totalRankingLiabilities, modalKerja) ==
  sheetAndUpdates(
    writeAdjusted(
      writeRow20(
        writeJumlahCells([heap |-> h0, updates |-> <<>>], updatedSheet, jumlahCol,
                         findRowIndexByText(h0, updatedSheet, ReRow12, Row12),
                         findRowIndexByText(h0, updatedSheet, ReRow13, Row13),
                         findRowIndexByText(h0, updatedSheet, ReRow15, Row15),
                         findRowIndexByText(h0, updatedSheet, ReRow18, Row18),
                         totalRankingLiabilities, modalKerja),
        updatedSheet, totalCol,
        findRowIndexByText(h0, updatedSheet, ReRow20, Row20), modalKerja),
      updatedSheet, totalCol,
      findRowIndexByText(h0, updatedSheet, ReRow102, Row102),
      findRowIndexByText(h0, updatedSheet, ReRow103, Row103),
      findRowIndexByText(h0, updatedSheet, ReRow104, Row104),
      modalKerja),
    updatedSheet)

\* applyVD59Overwrite on the clone c = [heap, sheet] it made
applyVD59OverwriteOn(c, totalRankingLiabilities, totalAsetLancar, totalLiabilitas) ==
  applyVD59OverwriteAt(c.heap, c.sheet,
                       findColumnOptional(c.sheet.headers, ReJumlah),
                       findColumnOptional(c.sheet.headers, ReTotalHeader),
                       totalRankingLiabilities,
                       totalAsetLancar - totalLiabilitas - totalRankingLiabilities)

applyVD59Overwrite(h, sheet, totalRankingLiabilities, totalAsetLancar, totalLiabilitas) ==
  applyVD59OverwriteOn(cloneSheet(h, sheet), totalRankingLiabilities, totalAsetLancar,
                       totalLiabilitas)

\* a lookup that keeps the last table whose name matches
findSheet_lastMatch(ss, re) ==
  LET hits == {i \in 1..Len(ss) : ss[i].sheetName \in re}
  IN IF hits = {} THEN 0 ELSE CHOOSE i \in hits : \A j \in hits : j <= i

\* sheets.find(s => re.test(s.sheetName)): 1-based position, 0 when absent
findSheet(ss, re) ==
  LET hits == {i \in 1..Len(ss) : ss[i].sheetName \in re}
  IN IF hits = {} THEN 0 ELSE FirstIndex(hits)

\* out.findIndex(s => s.sheetName === name), 1-based
findIndexByName(ss, name) == FirstIndex({i \in 1..Len(ss) : ss[i].sheetName = name})

\* a store that adds the corrected sheet after the sheets of the input
replaceSheet_appended(out, name, sheet) == Append(out, sheet)

\* out[idx] = sheet, idx being the position of the first sheet named name
replaceSheet(out, name, sheet) == [out EXCEPT ![findIndexByName(out, name)] = sheet]

\* return { sheets: out, vd59Updates }
correctionResult(h, out, vd59Updates) ==
  [heap |-> h, sheets |-> out, vd59Updates |-> vd59Updates]

\* the block 'if (vd59)', vd59Res being the result of applyVD59Overwrite
storeVD59(out, name, vd59Res) ==
  correctionResult(vd59Res.heap, replaceSheet(out, name, vd59Res.sheet), vd59Res.updates)

\* the block 'if (res.updated)', res being the result of applyVD510Overwrite
storeVD510(out, vd59, vd510, res, totalPortofolio, totalAsetLancar, totalLiabilitas) ==
  IF res.updated
    THEN IF vd59 # 0
           THEN storeVD59(replaceSheet(out, out[vd510].sheetName, res.sheet),
                          out[vd59].sheetName,
                          applyVD59Overwrite(res.heap, out[vd59], totalPortofolio,
                                             totalAsetLancar, totalLiabilitas))
           ELSE correctionResult(res.heap,
                                 replaceSheet(out, out[vd510].sheetName, res.sheet), <<>>)
    ELSE correctionResult(res.heap, out, <<>>)

\* the block 'if (vd510 && totalEkuitas !== 0)', the details being computed
correctWithDetails(h0, out, vd59, vd510, details, totalPortofolio, totalAsetLancar, totalLiabilitas) ==
  storeVD510(out, vd59, vd510,
             applyVD510Overwrite(h0, out[vd510], details, totalPortofolio),
             totalPortofolio, totalAsetLancar, totalLiabilitas)

\* const totalPortofolio = getTotalRankingLiabilitiesFromVD510(details)
correctRanked(h0, out, vd59, vd510, details, totalAsetLancar, totalLiabilitas) ==
  correctWithDetails(h0, out, vd59, vd510, details,
                     getTotalRankingLiabilitiesFromVD510(details),
                     totalAsetLancar, totalLiabilitas)

\* applyMKBDCorrections from its 'if (vd510 && totalEkuitas !== 0)' on
correctWithTotals(h0, out, vd59, vd510, totalAsetLancar, totalLiabilitas, totalEkuitas) ==
  IF vd510 # 0 /\ totalEkuitas # 0
    THEN correctRanked(h0, out, vd59, vd510,
                       calculateVD510RankingLiabilities(h0, out[vd510], totalEkuitas),
                       totalAsetLancar, totalLiabilitas)
    ELSE correctionResult(h0, out, <<>>)

\* the three extractions of applyMKBDCorrections, the sheets being found
applyMKBDCorrectionsOn(h0, out, vd51, vd52, vd59, vd510) ==
  correctWithTotals(h0, out, vd59, vd510,
    IF vd51 # 0 THEN extractVD51TotalAsetLancar(h0, out[vd51]) ELSE 0,
    IF vd52 # 0 THEN extractVD52TotalLiabilitas(h0, out[vd52]) ELSE 0,
    IF vd52 # 0 THEN extractVD52TotalEkuitas(h0, out[vd52]) ELSE 0)

\* applyMKBDCorrections on the clones cl = [heap, sheets] it made
applyMKBDCorrectionsTo(cl) ==
  applyMKBDCorrectionsOn(cl.heap, cl.sheets,
                         findSheet(cl.sheets, ReVD51), findSheet(cl.sheets, ReVD52),
                         findSheet(cl.sheets, ReVD59), findSheet(cl.sheets, ReVD510))

applyMKBDCorrections(h, sheets) == applyMKBDCorrectionsTo(cloneAll(h, sheets))

----------------------------------------------------------------------------
(* calculateMKBD *)

\* the updateRules of calculateVD59Updates; patterns are seg1.*seg2.*...
updateRules(jumlahCol, totalCol, totalRankingLiabilities, totalModalKerja, mkbdDisesuaikan, lebihKurangMKBD) ==
  LET modalKerjaBaris9 ==
        << <<{"total"}, {"modal"}, {"kerja"}>>, <<{"baris", "(baris"}, {"9"}>>,
           <<{"dikurangi"}>>, <<{"baris", "(baris"}, {"11"}>>,
           <<{"baris", "(baris"}, {"12", "12)"}>> >>
  IN << [rowIndex |-> 12, pattern |-> <<ReRow12>>, column |-> jumlahCol,
         newValue |-> totalRankingLiabilities,
         formula |-> "VD510 Total Portofolio (Nilai_Rangking_Liabilities)"],
        [rowIndex |-> 13, pattern |-> modalKerjaBaris9, column |-> jumlahCol,
         newValue |-> totalModalKerja,
         formula |-> "TOTAL ASET LANCAR - TOTAL LIABILITAS - TOTAL RANKING LIABILITIES"],
        [rowIndex |-> 15, pattern |-> modalKerjaBaris9, column |-> jumlahCol,
         newValue |-> totalModalKerja,
         formula |-> "Same as Row 13 (TOTAL MODAL KERJA)"],
        [rowIndex |-> 18,
         pattern |-> << <<{"total"}, {"modal"}, {"kerja"}, {"bersih"}>>,
                        <<{"baris", "(baris"}, {"15"}>>, <<{"ditambah"}>>,
                        <<{"baris", "(baris"}, {"17", "17)"}>> >>,
         column |-> jumlahCol, newValue |-> totalModalKerja,
         formula |-> "Same as Row 13 (TOTAL MODAL KERJA)"],
        [rowIndex |-> 20,
         pattern |-> << <<{"total"}, {"modal"}, {"kerja"}, {"bersih"}>>,
                        <<{"baris", "(baris"}, {"18", "18)"}>> >>,
         column |-> totalCol, newValue |-> totalModalKerja,
         formula |-> "Same as Row 13 (TOTAL MODAL KERJA)"],
        [rowIndex |-> 102, pattern |-> <<ReRow102>>, column |-> totalCol,
         newValue |-> mkbdDisesuaikan,
         formula |-> "Row 20 - SUM(Rows 33-92 Total)"],
        [rowIndex |-> 104,
         pattern |-> << <<{"lebih"}>>, <<{"kurang", "(kurang)"}>>, <<{"mkbd"}>> >>,
         column |-> totalCol, newValue |-> lebihKurangMKBD,
         formula |-> "MKBD DISESUAIKAN - NILAI MKBD YANG DIWAJIBKAN"] >>

\* haircut sum of calculateVD59Updates: cells that are null are passed over
haircutSumNonNull(rows, totalCol, from, to) ==
  SumRange([i \in 1..Len(rows) |->
              IF Truthy(totalCol) /\ Get(rows[i], totalCol).t # "null"
                THEN parseNumericValue(Get(rows[i], totalCol)) ELSE 0],
           from + 1, to)

\* the loop 'Apply updates' assigning row[rule.column] = rule.newValue
proposeUpdates_applied(h, sheet, rules) ==
  LET rows == RowsOf(h, sheet)
      applies(rule) ==
        rule.rowIndex - 1 >= 0 /\ rule.rowIndex - 1 < Len(rows) /\ Truthy(rule.column)
      pushed == SelectSeq(rules, applies)
      update(rule) ==
        LET row == rows[rule.rowIndex]
            rowText == RowText(row)
        IN [rowIndex |-> rule.rowIndex,
            rowDescription |-> IF GapPatternTest(rule.pattern, rowText) THEN rowText
                               ELSE <<"Row", ToString(rule.rowIndex)>>,
            column |-> rule.column,
            oldValue |-> parseNumericValue(Get(row, rule.column)),
            newValue |-> rule.newValue,
            formula |-> rule.formula]
      wrote(id) == {k \in 1..Len(pushed) : sheet.data[pushed[k].rowIndex] = id}
      last(id) == pushed[CHOOSE k \in wrote(id) : \A m \in wrote(id) : m <= k]
  IN [heap |-> [id \in 1..Len(h) |->
                  IF wrote(id) = {} THEN h[id]
                  ELSE Put(h[id], last(id).column, Num(last(id).newValue))],
      updates |-> [k \in 1..Len(pushed) |-> update(pushed[k])]]

\* the loop 'Apply updates': proposals only, nothing is written to the sheet
proposeUpdates(h, sheet, rules) ==
  LET rows == RowsOf(h, sheet)
      applies(rule) ==
        rule.rowIndex - 1 >= 0 /\ rule.rowIndex - 1 < Len(rows) /\ Truthy(rule.column)
      pushed == SelectSeq(rules, applies)
      update(rule) ==
        LET row == rows[rule.rowIndex]
            rowText == RowText(row)
        IN [rowIndex |-> rule.rowIndex,
            rowDescription |-> IF GapPatternTest(rule.pattern, rowText) THEN rowText
                               ELSE <<"Row", ToString(rule.rowIndex)>>,
            column |-> rule.column,
            oldValue |-> parseNumericValue(Get(row, rule.column)),
            newValue |-> rule.newValue,
            formula |-> rule.formula]
  IN [heap |-> h, updates |-> [k \in 1..Len(pushed) |-> update(pushed[k])]]

\* return { updates, haircutSum, mkbdDisesuaikan, lebihKurangMKBD }
vd59UpdatesResult(applied, haircutSum, mkbdDisesuaikan, lebihKurangMKBD) ==
  [heap |-> applied.heap,
   updates |-> applied.updates,
   haircutSum |-> haircutSum,
   mkbdDisesuaikan |-> mkbdDisesuaikan,
   lebihKurangMKBD |-> lebihKurangMKBD]

\* calculateVD59Updates from its updateRules on
calculateVD59UpdatesWith(h, sheet, jumlahCol, totalCol, totalRankingLiabilities, totalModalKerja, haircutSum, mkbdDisesuaikan, lebihKurangMKBD) ==
  vd59UpdatesResult(
    proposeUpdates(h, sheet,
                   updateRules(jumlahCol, totalCol, totalRankingLiabilities,
                               totalModalKerja, mkbdDisesuaikan, lebihKurangMKBD)),
    haircutSum, mkbdDisesuaikan, lebihKurangMKBD)

\* mkbdDisesuaikan taken as the working capital, the haircut sum not deducted
calculateVD59UpdatesFrom_withoutHaircut(h, sheet, jumlahCol, totalCol, totalRankingLiabilities, totalModalKerja, haircutSum, mkbdDiwajibkan) ==
  calculateVD59UpdatesWith(h, sheet, jumlahCol, totalCol, totalRankingLiabilities,
                           totalModalKerja, haircutSum, totalModalKerja,
                           totalModalKerja - mkbdDiwajibkan)

\* calculateVD59Updates from mkbdDisesuaikan on, the haircut sum being computed
calculateVD59UpdatesFrom(h, sheet, jumlahCol, totalCol, totalRankingLiabilities, totalModalKerja, haircutSum, mkbdDiwajibkan) ==
  calculateVD59UpdatesWith(h, sheet, jumlahCol, totalCol, totalRankingLiabilities,
                           totalModalKerja, haircutSum, totalModalKerja - haircutSum,
                           (totalModalKerja - haircutSum) - mkbdDiwajibkan)

\* calculateVD59Updates from its haircut loop on, the columns being found
calculateVD59UpdatesAt(h, sheet, jumlahCol, totalCol, totalRankingLiabilities, totalModalKerja, mkbdDiwajibkan) ==
  calculateVD59UpdatesFrom(h, sheet, jumlahCol, totalCol, totalRankingLiabilities,
                           totalModalKerja,
                           haircutSumNonNull(RowsOf(h, sheet), totalCol, HaircutFrom,
                                             Min(HaircutTo, Len(sheet.data))),
                           mkbdDiwajibkan)

calculateVD59Updates(h, sheet, totalAsetLancar, totalLiabilitas, totalRankingLiabilities, mkbdDiwajibkan) ==
  calculateVD59UpdatesAt(h, sheet,
                         findColumnByPattern(sheet.headers, ReJumlah),
                         findColumnByPattern(sheet.headers, ReTotalHeader),
                         totalRankingLiabilities,
                         totalAsetLancar - totalLiabilitas - totalRankingLiabilities,
                         mkbdDiwajibkan)

\* a CalculationStep (name and formula are fixed display texts per id)
Step(id, inputValues, result, source, editable) ==
  [id |-> id, inputValues |-> inputValues, result |-> result,
   source |-> source, editable |-> editable]

\* the four sheets.find(...) of calculateMKBD: 1-based positions, 0 when absent
findSheets(sheets) ==
  [vd51Sheet |-> findSheet(sheets, ReVD51),
   vd59Sheet |-> findSheet(sheets, ReVD59),
   vd510Sheet |-> findSheet(sheets, ReVD510),
   vd52Sheet |-> findSheet(sheets, ReVD52)]

\* PASS 1 with a required value of 0 when there is no VD59 form
pass1_requiredZeroWhenAbsent(h, sheets, f) ==
  [totalAsetLancar |->
     IF f.vd51Sheet # 0 THEN extractVD51TotalAsetLancar(h, sheets[f.vd51Sheet]) ELSE 0,
   totalLiabilitas |->
     IF f.vd52Sheet # 0 THEN extractVD52TotalLiabilitas(h, sheets[f.vd52Sheet]) ELSE 0,
   totalEkuitas |->
     IF f.vd52Sheet # 0 THEN extractVD52TotalEkuitas(h, sheets[f.vd52Sheet]) ELSE 0,
   mkbdDiwajibkan |->
     IF f.vd59Sheet # 0 THEN extractVD59MKBDDiwajibkan(h, sheets[f.vd59Sheet]) ELSE 0]

\* PASS 1: the values extracted, f being the sheets found
pass1(h, sheets, f) ==
  [totalAsetLancar |->
     IF f.vd51Sheet # 0 THEN extractVD51TotalAsetLancar(h, sheets[f.vd51Sheet]) ELSE 0,
   totalLiabilitas |->
     IF f.vd52Sheet # 0 THEN extractVD52TotalLiabilitas(h, sheets[f.vd52Sheet]) ELSE 0,
   totalEkuitas |->
     IF f.vd52Sheet # 0 THEN extractVD52TotalEkuitas(h, sheets[f.vd52Sheet]) ELSE 0,
   mkbdDiwajibkan |->
     IF f.vd59Sheet # 0 THEN extractVD59MKBDDiwajibkan(h, sheets[f.vd59Sheet])
     ELSE DefaultMKBDDiwajibkan]

\* PASS 1: the calculation steps pushed
pass1Steps(f, p1) ==
  (IF f.vd51Sheet # 0
     THEN <<Step("pass1_aset_lancar", [value |-> p1.totalAsetLancar],
                 p1.totalAsetLancar, "VD51", FALSE)>>
     ELSE <<>>)
  \o (IF f.vd52Sheet # 0
        THEN <<Step("pass1_liabilitas", [value |-> p1.totalLiabilitas],
                    p1.totalLiabilitas, "VD52", FALSE),
               Step("pass1_total_ekuitas", [value |-> p1.totalEkuitas],
                    p1.totalEkuitas, "VD52", FALSE)>>
        ELSE <<>>)
  \o (IF f.vd59Sheet # 0
        THEN <<Step("pass1_mkbd_diwajibkan", [value |-> p1.mkbdDiwajibkan],
                    p1.mkbdDiwajibkan, "VD59", FALSE)>>
        ELSE <<>>)

\* PASS 2 guarded by the presence of the concentration table alone
pass2Runs_withoutEquityGuard(f, p1) == f.vd510Sheet # 0

\* if (vd510Sheet && totalEkuitas !== 0)
pass2Runs(f, p1) == f.vd510Sheet # 0 /\ p1.totalEkuitas # 0

\* PASS 2: vd510Details
pass2Details(h, sheets, f, p1) ==
  IF pass2Runs(f, p1)
    THEN calculateVD510RankingLiabilities(h, sheets[f.vd510Sheet], p1.totalEkuitas)
    ELSE <<>>

\* PASS 2: the details and their total
pass2(f, p1, vd510Details) ==
  [vd510Details |-> vd510Details,
   totalRankingLiabilities |->
     IF pass2Runs(f, p1) THEN getTotalRankingLiabilitiesFromVD510(vd510Details) ELSE 0]

\* PASS 2: the calculation step pushed
pass2Steps(f, p1, p2) ==
  IF pass2Runs(f, p1)
    THEN <<Step("pass2_ranking_liabilities",
                [totalEkuitas |-> p1.totalEkuitas,
                 batas20Persen |-> (p1.totalEkuitas * 20) \div 100,
                 itemCount |-> Len(p2.vd510Details)],
                p2.totalRankingLiabilities, "VD510", TRUE)>>
    ELSE <<>>

\* PASS 3 forgetting the ranking charge
modalKerjaPass3_withoutRanking(totalAsetLancar, totalLiabilitas, totalRankingLiabilities) ==
  totalAsetLancar - totalLiabilitas

\* PASS 3 with the working capital taken from the calculate function that
\* the registry holds for modalKerja
modalKerjaPass3_fromRegistry(totalAsetLancar, totalLiabilitas, totalRankingLiabilities) ==
  IF formulaMaps[customFormulas]["modalKerja"].calculate = "modalKerja"
    THEN totalAsetLancar - totalLiabilitas - totalRankingLiabilities
    ELSE 0

\* let modalKerja = ... of PASS 3
modalKerjaPass3(totalAsetLancar, totalLiabilitas, totalRankingLiabilities) ==
  totalAsetLancar - totalLiabilitas - totalRankingLiabilities

\* PASS 3: the block 'if (vd59Sheet)', vd59Result being returned by
\* calculateVD59Updates
pass3WithVD59(modalKerja, vd59Result) ==
  [heap |-> vd59Result.heap,
   modalKerja |-> modalKerja,
   vd59Updates |-> vd59Result.updates,
   haircutSum |-> vd59Result.haircutSum,
   mkbdDisesuaikan |-> vd59Result.mkbdDisesuaikan,
   lebihKurangMKBD |-> vd59Result.lebihKurangMKBD]

\* PASS 3: the values computed
pass3(h, sheets, f, p1, p2, modalKerja) ==
  IF f.vd59Sheet # 0
    THEN pass3WithVD59(modalKerja,
                       calculateVD59Updates(h, sheets[f.vd59Sheet], p1.totalAsetLancar,
                                            p1.totalLiabilitas, p2.totalRankingLiabilities,
                                            p1.mkbdDiwajibkan))
    ELSE [heap |-> h,
          modalKerja |-> modalKerja,
          vd59Updates |-> <<>>,
          haircutSum |-> 0,
          mkbdDisesuaikan |-> modalKerja,
          lebihKurangMKBD |-> modalKerja - p1.mkbdDiwajibkan]

\* PASS 3: the calculation steps pushed; modalKerjaBersih = modalKerja
pass3Steps(p1, p2, p3) ==
  <<Step("pass3_modal_kerja",
         [totalAsetLancar |-> p1.totalAsetLancar, totalLiabilitas |-> p1.totalLiabilitas,
          totalRankingLiabilities |-> p2.totalRankingLiabilities],
         p3.modalKerja, "Calculated", TRUE),
    Step("pass3_haircut_sum", [haircutSum |-> p3.haircutSum], p3.haircutSum, "VD59", FALSE),
    Step("pass3_mkbd_disesuaikan",
         [modalKerjaBersih |-> p3.modalKerja, haircutSum |-> p3.haircutSum],
         p3.mkbdDisesuaikan, "Calculated", TRUE),
    Step("pass3_lebih_kurang",
         [mkbdDisesuaikan |-> p3.mkbdDisesuaikan, mkbdDiwajibkan |-> p1.mkbdDiwajibkan],
         p3.lebihKurangMKBD, "Calculated", FALSE)>>

\* the MKBDCalculationResult returned
calculationResult(f, p1, p2, p3) ==
  [heap |-> p3.heap,
   result |->
     [totalAsetLancar |-> p1.totalAsetLancar,
      totalEkuitas |-> p1.totalEkuitas,
      totalLiabilitas |-> p1.totalLiabilitas,
      totalRankingLiabilities |-> p2.totalRankingLiabilities,
      modalKerja |-> p3.modalKerja,
      modalKerjaBersih |-> p3.modalKerja,
      mkbdDisesuaikan |-> p3.mkbdDisesuaikan,
      mkbdDiwajibkan |-> p1.mkbdDiwajibkan,
      lebihKurangMKBD |-> p3.lebihKurangMKBD,
      calculationSteps |-> pass1Steps(f, p1) \o pass2Steps(f, p1, p2) \o pass3Steps(p1, p2, p3),
      vd510Details |-> p2.vd510Details,
      vd59Updates |-> p3.vd59Updates,
      haircutSum |-> p3.haircutSum]]

\* calculateMKBD from PASS 3 on
calculateFromPass2(h, sheets, f, p1, p2) ==
  calculationResult(f, p1, p2,
    pass3(h, sheets, f, p1, p2,
          modalKerjaPass3(p1.totalAsetLancar, p1.totalLiabilitas,
                          p2.totalRankingLiabilities)))

\* calculateMKBD from PASS 2 on
calculateFromPass1(h, sheets, f, p1) ==
  calculateFromPass2(h, sheets, f, p1, pass2(f, p1, pass2Details(h, sheets, f, p1)))

\* calculateMKBD from PASS 1 on
calculateWithSheets(h, sheets, f) == calculateFromPass1(h, sheets, f, pass1(h, sheets, f))

calculateMKBD(h, sheets) == calculateWithSheets(h, sheets, findSheets(sheets))

----------------------------------------------------------------------------
(* Input tables

   The forms are well formed in one respect: a row of the VD59 form carries
   at most one of the labels the correction pass looks for, so two targets
   never resolve to the same row.  Everything else varies: rows moved off
   their regulatory positions, labelled rows missing, columns missing, cells
   holding numbers, numeric strings, null or nothing, forms missing. *)

\* calls of each exported function in one behaviour
MaxCalls == 2
\* rows inserted in front of the VD59 form, moving its rows off their
\* regulatory positions
MaxShift == 1

\* rows inserted in front of a VD59 form whose row-20 target is thereby
\* found at position 40, among the haircut rows 33..92
HaircutShift == 20

\* rows missing in front of a VD59 form whose row-102 target is thereby
\* found at position 92, the last of the haircut rows 33..92
TrimmedRows == 10

Cell(key, val) == [k |-> key, v |-> val]

\* keeps the cells of the columns a table has
OnlyColumns(row, headers) ==
  SelectSeq(row, LAMBDA c : \E i \in 1..Len(headers) : headers[i] = c.k)

Table(name, headers, rows) ==
  [sheetName |-> name, headers |-> headers,
   rows |-> [i \in 1..Len(rows) |-> OnlyColumns(rows[i], headers)]]

AssetValues == {500}
LiabilityValues == {100}
EquityValues == {-10, 0, 20}
MarketValues == {-2, 0, 1, 4, 10}

VD51Table(a) ==
  Table("VD5-1", <<"Uraian", "Saldo">>,
        << <<Cell("Uraian", Str(<<"Kas">>)), Cell("Saldo", Num(120))>>,
           <<Cell("Uraian", Str(<<"TOTAL", "ASET", "LANCAR">>)), Cell("Saldo", Num(a))>> >>)

VD52Table(l, e) ==
  Table("VD5-2", <<"Uraian", "Saldo">>,
        << <<Cell("Uraian", Str(<<"TOTAL", "LIABILITAS">>)), Cell("Saldo", Num(l))>>,
           <<Cell("Uraian", Str(<<"TOTAL", "EKUITAS">>)), Cell("Saldo", Num(e))>> >>)

\* a VD52 form whose amounts are in a column 'Nilai', followed by a remark;
\* the form has a Saldo column only if headers names it, and it is empty
VD52Remarked(headers, l, e, remark) ==
  Table("VD5-2", headers,
        << <<Cell("Uraian", Str(<<"TOTAL", "LIABILITAS">>)), Cell("Nilai", Num(l)),
             Cell("Saldo", Null), Cell("Keterangan", Str(remark))>>,
           <<Cell("Uraian", Str(<<"TOTAL", "EKUITAS">>)), Cell("Nilai", Num(e)),
             Cell("Saldo", Null), Cell("Keterangan", Str(remark))>> >>)

VD52Fallbacks ==
  { VD52Remarked(<<"Uraian", "Nilai", "Keterangan">>, 100, 20, <<"audited">>),
    VD52Remarked(<<"Uraian", "Nilai", "Keterangan">>, 100, 20, <<"lihat", "catatan", "10">>),
    VD52Remarked(<<"Uraian", "Nilai", "Saldo">>, 100, 20, <<>>) }

VD510Headers ==
  { <<"No", "Kode Efek", "Nilai Pasar Wajar", "GRUP_NILAI_PASAR_WAJAR", "GRUP_EMITEN",
      "Nilai Rangking Liabilities">>,
    <<"No", "Kode Efek", "Nilai Pasar Wajar", "GRUP_NILAI_PASAR_WAJAR", "GRUP_EMITEN">> }

\* concentration tables without the pre-aggregated group field, the row's
\* own market value being the third or the first column
VD510HeadersUngrouped ==
  { <<"No", "Kode Efek", "Nilai Pasar Wajar", "GRUP_EMITEN", "Nilai Rangking Liabilities">>,
    <<"Nilai Pasar Wajar", "Kode Efek", "No", "GRUP_EMITEN", "Nilai Rangking Liabilities">> }

VD510Item(no, code, g) ==
  <<Cell("No", Num(no)), Cell("Kode Efek", Str(<<code>>)),
    Cell("Nilai Pasar Wajar", Num(g)), Cell("GRUP_NILAI_PASAR_WAJAR", Num(g)),
    Cell("GRUP_EMITEN", Str(<<"GrupA">>)), Cell("Nilai Rangking Liabilities", Num(99))>>

VD510Table(headers, g1, code2) ==
  Table("VD5-10", headers,
        << VD510Item(1, "BBCA", g1), VD510Item(2, code2, 10),
           <<Cell("No", Null), Cell("Kode Efek", Str(<<"Total", "Portofolio">>)),
             Cell("Nilai Rangking Liabilities", Num(98))>> >>)

\* the labelled rows of the VD59 form, by regulatory position
VD59Targets == {Row12, Row13, Row15, Row18, Row20, Row102, Row103, Row104}

VD59Label(p) ==
  CASE p = Row12 -> <<"Total", "Ranking", "Liabilities">>
    [] p = Row13 -> <<"Total", "Modal", "Kerja", "(Baris", "9", "dikurangi", "Baris", "11",
                      "dan", "Baris", "12)">>
    [] p = Row15 -> <<"Total", "Modal", "Kerja", "(Baris", "13)">>
    [] p = Row18 -> <<"Total", "Modal", "Kerja", "Bersih", "(Baris", "15", "ditambah",
                      "Baris", "17)">>
    [] p = Row20 -> <<"Total", "Modal", "Kerja", "Bersih", "(Baris", "18)">>
    [] p = Row102 -> <<"Total", "Modal", "Kerja", "Bersih", "Disesuaikan">>
    [] p = Row103 -> <<"Nilai", "MKBD", "yang", "diwajibkan">>
    [] OTHER -> <<"Lebih", "(Kurang)", "MKBD">>

\* what the uploaded form holds in the cells the correction overwrites
VD59OldJumlah(p) ==
  CASE p = Row12 -> Num(5)
    [] p = Row13 -> NumStr(390)
    [] p = Row15 -> Null
    [] OTHER -> Num(0)

VD59OldTotal(p) ==
  CASE p = Row20 -> Num(1)
    [] p = Row102 -> NumStr(2)
    [] p = Row103 -> Num(300)
    [] OTHER -> Num(3)

\* Total cells around the two ends of the haircut range
VD59Haircut(p) ==
  CASE p = 32 -> Num(7)
    [] p = 33 -> Num(2)
    [] p = 92 -> NumStr(3)
    [] p = 93 -> Num(9)
    [] OTHER -> Undefined

\* row at position i of a form whose rows moved down by shift and that
\* lacks the labelled row 'missing' (0: none is missing)
VD59Row(i, shift, missing) ==
  LET p == i - shift
  IN IF p \in VD59Targets \ {missing}
       THEN <<Cell("No", Num(i)), Cell("Uraian", Str(VD59Label(p)))>>
            \o (IF p = Row18 THEN <<>> ELSE <<Cell("Jumlah", VD59OldJumlah(p))>>)
            \o <<Cell("Total", VD59OldTotal(p))>>
       ELSE <<Cell("No", Num(i)), Cell("Uraian", Str(<<"x">>))>>
            \o (IF VD59Haircut(p).t = "undef" THEN <<>> ELSE <<Cell("Total", VD59Haircut(p))>>)

VD59Headers ==
  { <<"No", "Uraian", "Jumlah", "Total">>,
    <<"No", "Uraian", "Total">>,
    <<"No", "Uraian", "Jumlah">> }

VD59Table(headers, shift, missing) ==
  Table("VD5-9", headers, [i \in 1..(Row104 + shift) |-> VD59Row(i, shift, missing)])

\* the form with the Total cell of the required-MKBD row left empty
VD59BlankRequired(shift) ==
  LET t == VD59Table(<<"No", "Uraian", "Jumlah", "Total">>, shift, 0)
  IN [t EXCEPT !.rows[Row103 + shift] = Put(@, "Total", Null)]

\* position of a row that repeats the label of the row-12 target
RepeatedAt == 5

\* the form with the row-12 label also in an earlier row
VD59RepeatedLabel(shift) ==
  LET t == VD59Table(<<"No", "Uraian", "Jumlah", "Total">>, shift, 0)
  IN [t EXCEPT !.rows[RepeatedAt] = Put(@, "Uraian", Str(VD59Label(Row12)))]

VD59Tables ==
  {VD59Table(<<"No", "Uraian", "Jumlah", "Total">>, sh, m) :
     sh \in 0..MaxShift, m \in {0} \cup VD59Targets}
  \cup {VD59Table(hd, sh, 0) : hd \in VD59Headers, sh \in 0..MaxShift}
  \cup {VD59BlankRequired(sh) : sh \in 0..MaxShift}
  \cup {VD59Table(<<"No", "Uraian", "Jumlah", "Total">>, HaircutShift, 0)}
  \cup {VD59Table(<<"No", "Uraian", "Jumlah", "Total">>, -TrimmedRows, 0)}
  \cup {VD59RepeatedLabel(sh) : sh \in 0..MaxShift}

\* a table under another sheet name
Renamed(table, name) == [table EXCEPT !.sheetName = name]

\* sequences of tables handed to the engine: a full set of forms, and the
\* sets in which forms are missing
InputTables ==
  { <<VD51Table(a), VD52Table(l, e), VD59Table(<<"No", "Uraian", "Jumlah", "Total">>, 0, 0), t510>> :
      a \in AssetValues, l \in LiabilityValues, e \in EquityValues,
      t510 \in {VD510Table(hd, g, c) : hd \in VD510Headers, g \in MarketValues,
                                       c \in {"BBRI", "OTHER"}} }
  \cup
  { <<VD51Table(a), VD52Table(l, 20), t59, VD510Table(CHOOSE hd \in VD510Headers : Len(hd) = 6, 1, "BBRI")>> :
      a \in AssetValues, l \in LiabilityValues, t59 \in VD59Tables }
  \cup
  { <<VD51Table(500), VD52Table(100, 20), VD59Table(<<"No", "Uraian", "Jumlah", "Total">>, 0, 0),
      VD510Table(hd, 10, "BBRI")>> : hd \in VD510HeadersUngrouped }
  \cup
  { <<VD51Table(500), t52, VD59Table(<<"No", "Uraian", "Jumlah", "Total">>, 0, 0),
      VD510Table(CHOOSE hd \in VD510Headers : Len(hd) = 6, 10, "BBRI")>> : t52 \in VD52Fallbacks }
  \cup
  { <<Renamed(VD52Table(100, 20), "Sheet1")>>,
    <<Renamed(VD51Table(500), "Lampiran"),
      Renamed(VD59Table(<<"No", "Uraian", "Jumlah", "Total">>, 0, 0), "Sheet1"),
      Renamed(VD510Table(CHOOSE hd \in VD510Headers : Len(hd) = 6, 10, "BBRI"), "Sheet2")>> }
  \cup
  \* the concentration table under each spelling of its name, ahead of the
  \* other forms, and two tables whose names are both spellings of VD52
  { <<Renamed(VD510Table(CHOOSE hd \in VD510Headers : Len(hd) = 6, 10, "BBRI"), n),
      VD51Table(500), Renamed(VD52Table(300, e[1]), nm[1]), Renamed(VD52Table(100, e[2]), nm[2]),
      VD59Table(<<"No", "Uraian", "Jumlah", "Total">>, 0, 0)>> :
      n \in {"VD5-10", "VD5_10", "vd510", "formulir 10", "VD5-100"},
      e \in {<<0, 20>>, <<20, 0>>},
      nm \in {<<"Formulir 2", "VD5-2">>, <<"VD5-2", "VD52">>} }
  \cup
  { SelectSeq(<<VD51Table(500), VD52Table(100, 20),
                VD59Table(<<"No", "Uraian", "Jumlah", "Total">>, 0, 0),
                VD510Table(CHOOSE hd \in VD510Headers : Len(hd) = 6, 10, "BBRI")>>,
              LAMBDA t : t.sheetName \in present) :
      present \in SUBSET {"VD5-1", "VD5-2", "VD5-9", "VD5-10"} }

\* allocation of the tables' rows in a fresh heap
RECURSIVE AllocFrom(_, _, _)
AllocFrom(tables, i, h) ==
  IF i > Len(tables) THEN [heap |-> h, sheets |-> <<>>]
  ELSE LET t == tables[i]
           sheet == [sheetName |-> t.sheetName, headers |-> t.headers,
                     data |-> [j \in 1..Len(t.rows) |-> Len(h) + j]]
           rest == AllocFrom(tables, i + 1, h \o t.rows)
       IN [heap |-> rest.heap, sheets |-> <<sheet>> \o rest.sheets]

----------------------------------------------------------------------------
(* State machine: a caller holding a table set calls the two exported
   entry points *)

VARIABLES
  heap,              \* row objects, by reference
  sheets,            \* the caller's table set (references into heap)
  input,             \* the table set as it was handed over, by value
  calcResults,       \* results returned by calculateMKBD, in call order
  corrResults,       \* results returned by applyMKBDCorrections, in call order
  returnedFormulas,  \* maps returned by getFormulas: reference, and value when returned
  formulaCalls,      \* the registry functions called, in call order
  formulasAtCall     \* the registry at each call of calculateMKBD and applyMKBDCorrections

vars == <<heap, sheets, input, calcResults, corrResults, formulaMaps, customFormulas,
          returnedFormulas, formulaCalls, formulasAtCall>>

\* module load, and a caller that holds one of tableSets
InitWith(tableSets) ==
  \E tables \in tableSets :
    \E a \in {AllocFrom(tables, 1, <<>>)} :
       /\ heap = a.heap
       /\ sheets = a.sheets
       /\ input = tables
       /\ calcResults = <<>>
       /\ corrResults = <<>>
       /\ formulaMaps = <<DEFAULT_FORMULAS>>
       /\ customFormulas = 1
       /\ returnedFormulas = <<>>
       /\ formulaCalls = <<>>
       /\ formulasAtCall = [calculateMKBD |-> <<>>, applyMKBDCorrections |-> <<>>]

Init == InitWith(InputTables)

CallCalculateMKBD ==
  /\ Len(calcResults) < MaxCalls
  /\ \E r \in {calculateMKBD(heap, sheets)} :
        /\ heap' = r.heap
        /\ calcResults' = Append(calcResults, r.result)
  /\ formulasAtCall' = [formulasAtCall EXCEPT !.calculateMKBD = Append(@, formulaMaps[customFormulas])]
  /\ UNCHANGED <<sheets, input, corrResults, formulaMaps, customFormulas, returnedFormulas,
                 formulaCalls>>

CallApplyMKBDCorrections ==
  /\ Len(corrResults) < MaxCalls
  /\ \E r \in {applyMKBDCorrections(heap, sheets)} :
        /\ heap' = r.heap
        /\ corrResults' = Append(corrResults,
                                 [sheets |-> r.sheets,
                                  tables |-> DerefAll(r.heap, r.sheets),
                                  vd59Updates |-> r.vd59Updates])
  /\ formulasAtCall' = [formulasAtCall EXCEPT
                          !.applyMKBDCorrections = Append(@, formulaMaps[customFormulas])]
  /\ UNCHANGED <<sheets, input, calcResults, formulaMaps, customFormulas, returnedFormulas,
                 formulaCalls>>

Next == CallCalculateMKBD \/ CallApplyMKBDCorrections

Spec == Init /\ [][Next]_vars

\* the callers of the registry: ids and partial definitions handed to
\* updateFormula
UpdateIds == {"modalKerja", "tidakAda", "constructor"}
FormulaEdits == {[calculate |-> "custom"]}

\* the number of registry calls explored
MaxFormulaCalls == 2

\* the table sets held by the callers of the registry
FormulaInputTables ==
  { <<VD51Table(500), VD52Table(100, 20), VD59Table(<<"No", "Uraian", "Jumlah", "Total">>, 0, 0),
      VD510Table(CHOOSE hd \in VD510Headers : Len(hd) = 6, 10, "BBRI")>>,
    <<VD51Table(500), VD52Table(100, 20),
      VD510Table(CHOOSE hd \in VD510Headers : Len(hd) = 6, 4, "BBRI")>> }

CallUpdateFormula ==
  /\ Len(formulaCalls) < MaxFormulaCalls
  /\ \E id \in UpdateIds, formula \in FormulaEdits :
        formulaMaps' = updateFormula(formulaMaps, customFormulas, id, formula)
  /\ formulaCalls' = Append(formulaCalls, "updateFormula")
  /\ UNCHANGED <<heap, sheets, input, calcResults, corrResults, customFormulas,
                 returnedFormulas, formulasAtCall>>

CallResetFormulas ==
  /\ Len(formulaCalls) < MaxFormulaCalls
  /\ \E r \in {resetFormulas(formulaMaps)} :
        /\ formulaMaps' = r.maps
        /\ customFormulas' = r.customFormulas
  /\ formulaCalls' = Append(formulaCalls, "resetFormulas")
  /\ UNCHANGED <<heap, sheets, input, calcResults, corrResults, returnedFormulas,
                 formulasAtCall>>

CallGetFormulas ==
  /\ Len(formulaCalls) < MaxFormulaCalls
  /\ \E r \in {getFormulas(formulaMaps, customFormulas)} :
        /\ formulaMaps' = r.maps
        /\ returnedFormulas' = Append(returnedFormulas,
                                      [map |-> r.returned, value |-> r.maps[r.returned]])
  /\ formulaCalls' = Append(formulaCalls, "getFormulas")
  /\ UNCHANGED <<heap, sheets, input, calcResults, corrResults, customFormulas,
                 formulasAtCall>>

NextFormulas ==
  \/ CallCalculateMKBD
  \/ CallApplyMKBDCorrections
  \/ CallUpdateFormula
  \/ CallResetFormulas
  \/ CallGetFormulas

\* the engine and the registry, called in any order
SpecFormulas == InitWith(FormulaInputTables) /\ [][NextFormulas]_vars


----------------------------------------------------------------------------
(* Vocabulary of the properties *)

Max(a, b) == IF a > b THEN a ELSE b

\* the table of the input that the locator resolves for a role (0: none)
InputPos(re) == findSheet(input, re)

\* the quantities the extraction pass reads from the input tables
InputAsetLancar ==
  IF InputPos(ReVD51) = 0 THEN 0
  ELSE extractLabelled(input[InputPos(ReVD51)].rows, ReTotalAsetLancar,
                       findColumnOptional(input[InputPos(ReVD51)].headers, ReSaldo))

InputLiabilitas ==
  IF InputPos(ReVD52) = 0 THEN 0
  ELSE extractLabelled(input[InputPos(ReVD52)].rows, ReTotalLiabilitas,
                       findColumnOptional(input[InputPos(ReVD52)].headers, ReSaldo))

InputEkuitas ==
  IF InputPos(ReVD52) = 0 THEN 0
  ELSE extractLabelled(input[InputPos(ReVD52)].rows, ReTotalEkuitas,
                       findColumnOptional(input[InputPos(ReVD52)].headers, ReSaldo))

\* the total charge of the ranking pass over the input concentration table
InputRankingCharge ==
  LET a == AllocFrom(input, 1, <<>>)
  IN getTotalRankingLiabilitiesFromVD510(
       calculateVD510RankingLiabilities(a.heap, a.sheets[InputPos(ReVD510)], InputEkuitas))

\* the group market value of a concentration-table row: the pre-aggregated
\* field when the row has one, else the row's own market value
GroupMarketValue(row) ==
  IF HasKey(row, "GRUP_NILAI_PASAR_WAJAR")
    THEN parseNumericValue(Get(row, "GRUP_NILAI_PASAR_WAJAR"))
    ELSE parseNumericValue(Get(row, "Nilai Pasar Wajar"))

\* C1: every item of the ranking pass carries the charge
\* max(0, groupMarketValue - 20% of totalEkuitas), so no item is negative
C1_ChargeIsFlooredExcess ==
  \A k \in 1..Len(calcResults) :
    \A j \in 1..Len(calcResults[k].vd510Details) :
      LET d == calcResults[k].vd510Details[j]
          row == input[InputPos(ReVD510)].rows[d.rowIndex]
      IN d.nilaiRankingLiabilities
           = Max(0, GroupMarketValue(row) - (calcResults[k].totalEkuitas * 20) \div 100)

\* the ranking-liability cells of the returned concentration table are the
\* ones of the input and no record is logged
NoRankingChargeWritten(k) ==
  /\ corrResults[k].vd59Updates = <<>>
  /\ corrResults[k].tables = input

\* C2: with extracted equity zero or negative the ranking pass is skipped:
\* calculateMKBD returns total 0 and no items, applyMKBDCorrections writes
\* no ranking charge
C2_NonPositiveEquitySkipsRanking ==
  /\ \A k \in 1..Len(calcResults) :
       calcResults[k].totalEkuitas <= 0 =>
         /\ calcResults[k].totalRankingLiabilities = 0
         /\ calcResults[k].vd510Details = <<>>
  /\ \A k \in 1..Len(corrResults) :
       InputEkuitas <= 0 => NoRankingChargeWritten(k)

\* C3: modalKerja = totalAsetLancar - totalLiabilitas - totalRankingLiabilities
\* on the fields of every result of calculateMKBD
C3_ModalKerjaIdentity ==
  \A k \in 1..Len(calcResults) :
    calcResults[k].modalKerja
      = calcResults[k].totalAsetLancar - calcResults[k].totalLiabilitas
        - calcResults[k].totalRankingLiabilities

\* a result with assets, liabilities and a ranking charge, all non-zero
C3_Witness ==
  \E k \in 1..Len(calcResults) :
    /\ calcResults[k].totalAsetLancar = 500
    /\ calcResults[k].totalLiabilitas = 100
    /\ calcResults[k].totalRankingLiabilities = 6
    /\ calcResults[k].modalKerja = 394

\* the row findRow designates: the preferred position when that row's text
\* matches, else the first matching row; 1-based, 0 when no row matches
Located(rows, re, pref) ==
  LET hits == {i \in 1..Len(rows) : PatternTest(re, RowText(rows[i]))}
  IN IF pref \in hits THEN pref
     ELSE IF hits = {} THEN 0 ELSE FirstIndex(hits)

HasHeader(table, name) == \E i \in 1..Len(table.headers) : table.headers[i] = name

\* the rows the Correction Pass overwrites, in the order of its steps
CorrectionTargets ==
  << [re |-> ReRow12, pref |-> Row12, col |-> "Jumlah"],
     [re |-> ReRow13, pref |-> Row13, col |-> "Jumlah"],
     [re |-> ReRow15, pref |-> Row15, col |-> "Jumlah"],
     [re |-> ReRow18, pref |-> Row18, col |-> "Jumlah"],
     [re |-> ReRow20, pref |-> Row20, col |-> "Total"],
     [re |-> ReRow102, pref |-> Row102, col |-> "Total"],
     [re |-> ReRow104, pref |-> Row104, col |-> "Total"] >>

\* the four working-capital targets
WorkingCapitalTargets == SubSeq(CorrectionTargets, 2, 5)

\* the Correction Pass reaches the VD59 table: both forms are present, the
\* equity is usable and the concentration table has the columns to correct
CorrectionPassRuns ==
  /\ InputPos(ReVD59) # 0
  /\ InputPos(ReVD510) # 0
  /\ InputEkuitas # 0
  /\ HasHeader(input[InputPos(ReVD510)], "Kode Efek")
  /\ HasHeader(input[InputPos(ReVD510)], "Nilai Rangking Liabilities")

InputVD59 == input[InputPos(ReVD59)]

\* the VD59 table of the k-th result of applyMKBDCorrections
CorrectedVD59(k) == corrResults[k].tables[InputPos(ReVD59)]

\* working capital as the Correction Pass computes it
InputWorkingCapital == InputAsetLancar - InputLiabilitas - InputRankingCharge

\* sum of the Total cells of rows 33..92 of the uploaded form
InputHaircutSum ==
  SumRange([p \in 1..Len(InputVD59.rows) |-> parseNumericValue(Get(InputVD59.rows[p], "Total"))],
           33, Min(92, Len(InputVD59.rows)))

\* the haircut sum the Correction Pass deducts: the Total cells of rows
\* 33..92 as the write to the row-20 target left them
PassHaircutSumWith(row20, modalKerja) ==
  SumRange([p \in 1..Len(InputVD59.rows) |->
              IF p = row20 /\ HasHeader(InputVD59, "Total")
                THEN modalKerja
                ELSE parseNumericValue(Get(InputVD59.rows[p], "Total"))],
           33, Min(92, Len(InputVD59.rows)))

PassHaircutSum ==
  PassHaircutSumWith(Located(InputVD59.rows, ReRow20, Row20), InputWorkingCapital)

\* C4: in a corrected VD59 table the cells of the four working-capital
\* targets that are located all hold totalAsetLancar - totalLiabilitas -
\* totalRankingCharge
C4_WorkingCapitalRowsIdentical ==
  \A k \in 1..Len(corrResults) :
    CorrectionPassRuns =>
      \A wc \in {InputWorkingCapital} :
        \A g \in 1..Len(WorkingCapitalTargets) :
          LET t == WorkingCapitalTargets[g]
              p == Located(InputVD59.rows, t.re, t.pref)
          IN (p # 0 /\ HasHeader(InputVD59, t.col)) =>
               Get(CorrectedVD59(k).rows[p], t.col) = Num(wc)

\* all four targets are located, none at its preferred position, and the
\* value written, 500 - 100 - 3, differs from what the form held
C4_Witness ==
  /\ Len(corrResults) >= 1
  /\ CorrectionPassRuns
  /\ HasHeader(InputVD59, "Jumlah") /\ HasHeader(InputVD59, "Total")
  /\ \A g \in 1..Len(WorkingCapitalTargets) :
       LET t == WorkingCapitalTargets[g]
           p == Located(InputVD59.rows, t.re, t.pref)
       IN /\ p # 0 /\ p # t.pref
          /\ Get(CorrectedVD59(1).rows[p], t.col) = Num(397)
          /\ Get(InputVD59.rows[p], t.col) # Num(397)

\* C5: two runs of applyMKBDCorrections on the same input tables return the
\* same corrected tables and the same correction log
C5_CorrectionsRepeatable ==
  \A i, j \in 1..Len(corrResults) :
    /\ corrResults[i].tables = corrResults[j].tables
    /\ corrResults[i].vd59Updates = corrResults[j].vd59Updates

\* two runs, each with a full log of seven records
C5_Witness ==
  /\ Len(corrResults) = 2
  /\ Len(corrResults[1].vd59Updates) = 7
  /\ Len(corrResults[2].vd59Updates) = 7
  /\ \E i \in 1..7 : corrResults[2].vd59Updates[i].oldValue
                       # corrResults[2].vd59Updates[i].newValue

\* C6: the caller's tables keep their headers, rows and cells whatever
\* applyMKBDCorrections wrote; the overwrites are in the returned tables
C6_InputTablesUntouched ==
  Len(corrResults) >= 1 => DerefAll(heap, sheets) = input

\* corrections were written to the returned tables
C6_Witness ==
  /\ Len(corrResults) >= 1
  /\ calcResults = <<>>
  /\ Len(corrResults[1].vd59Updates) = 7
  /\ corrResults[1].tables # input
  /\ DerefAll(heap, corrResults[1].sheets) # input

\* C7: calculateMKBD changes no cell, row or header of its argument, and
\* calls on equal table sets return equal results
C7_CalculateIsPure ==
  /\ corrResults = <<>> => DerefAll(heap, sheets) = input
  /\ \A i, j \in 1..Len(calcResults) : calcResults[i] = calcResults[j]

\* two calls that both returned update proposals differing from the cells
C7_Witness ==
  /\ corrResults = <<>>
  /\ Len(calcResults) = 2
  /\ Len(calcResults[2].vd59Updates) = 7
  /\ \E i \in 1..7 : calcResults[2].vd59Updates[i].oldValue
                       # calcResults[2].vd59Updates[i].newValue

\* C8: every record of the log carries the parsed value the cell had in the
\* input VD59 table, and the returned table holds the record's new value
C8_LogCarriesPriorValue ==
  \A k \in 1..Len(corrResults) :
    \A i \in 1..Len(corrResults[k].vd59Updates) :
      LET u == corrResults[k].vd59Updates[i]
      IN /\ u.oldValue = parseNumericValue(Get(InputVD59.rows[u.rowIndex], u.column))
         /\ Get(CorrectedVD59(k).rows[u.rowIndex], u.column) = Num(u.newValue)

\* a full log whose prior values are a number, a numeric string, an empty
\* cell and an absent cell
C8_Witness ==
  \E k \in 1..Len(corrResults) :
    /\ Len(corrResults[k].vd59Updates) = 7
    /\ corrResults[k].vd59Updates[1].oldValue = 5
    /\ corrResults[k].vd59Updates[2].oldValue = 390
    /\ corrResults[k].vd59Updates[3].oldValue = 0
    /\ corrResults[k].vd59Updates[6].oldValue = 2
    /\ corrResults[k].vd59Updates[2].newValue = 394

\* the targets the pass can write: located, and their column exists
WritableTargets ==
  SelectSeq(CorrectionTargets,
            LAMBDA t : Located(InputVD59.rows, t.re, t.pref) # 0 /\ HasHeader(InputVD59, t.col))

FormulaRow102 == "TOTAL MODAL KERJA BERSIH (Row 18) - SUM(Total rows 33..92)"
FormulaRow104 == "TOTAL MODAL KERJA BERSIH DISESUAIKAN - NILAI MKBD YANG DIWAJIBKAN"

\* C9: a target row that cannot be located is skipped: the log holds one
\* record per locatable target and none for the others, rows without a
\* record are unchanged, and the values written to rows 102 and 104 come
\* from the computed working capital
C9_UnlocatedTargetSkipped ==
  \A k \in 1..Len(corrResults) :
    CorrectionPassRuns =>
      \A exp \in {WritableTargets}, adjusted \in {InputWorkingCapital - PassHaircutSum},
         p103 \in {Located(InputVD59.rows, ReRow103, Row103)} :
        LET log == corrResults[k].vd59Updates
        IN /\ Len(log) = Len(exp)
           /\ \A i \in 1..Len(exp) :
                /\ log[i].rowIndex = Located(InputVD59.rows, exp[i].re, exp[i].pref)
                /\ log[i].column = exp[i].col
           /\ \A p \in 1..Len(InputVD59.rows) :
                (\A i \in 1..Len(log) : log[i].rowIndex # p) =>
                  CorrectedVD59(k).rows[p] = InputVD59.rows[p]
           /\ \A i \in 1..Len(log) :
                /\ log[i].formula = FormulaRow102 => log[i].newValue = adjusted
                /\ (log[i].formula = FormulaRow104 /\ p103 # 0) =>
                     log[i].newValue =
                       adjusted - parseNumericValue(Get(InputVD59.rows[p103], "Total"))

\* the row-13 target is nowhere in the form; the six others are written,
\* rows 102 and 104 with 397 - 5 = 392 and 392 - 300 = 92
C9_Witness ==
  \E k \in 1..Len(corrResults) :
    /\ CorrectionPassRuns
    /\ Located(InputVD59.rows, ReRow13, Row13) = 0
    /\ Len(corrResults[k].vd59Updates) = 6
    /\ corrResults[k].vd59Updates[5].formula = FormulaRow102
    /\ corrResults[k].vd59Updates[5].newValue = 392
    /\ corrResults[k].vd59Updates[6].newValue = 92

\* C10: the value written to the surplus/deficit row is adjustedMKBD -
\* REQUIRED_MKBD, REQUIRED_MKBD being the Total cell of the row located as
\* 'required MKBD' and 25,000,000,000 when no row matches that pattern
C10_SurplusUsesRequiredOrDefault ==
  \A k \in 1..Len(corrResults) :
    CorrectionPassRuns =>
      LET log == corrResults[k].vd59Updates
          p103 == Located(InputVD59.rows, ReRow103, Row103)
          required == IF p103 # 0
                        THEN parseNumericValue(Get(InputVD59.rows[p103], "Total"))
                        ELSE DefaultMKBDDiwajibkan
      IN \A i \in 1..Len(log) :
           log[i].formula = FormulaRow104 =>
             log[i].newValue = (InputWorkingCapital - InputHaircutSum) - required

\* the rows of the uploaded VD59 form that carry the required-MKBD label
RequiredLabelled ==
  {i \in 1..Len(InputVD59.rows) :
     \/ PatternTest(ReRow103, RowText(InputVD59.rows[i]))
     \/ PatternTest(ReMkbdDiwajibkan, RowText(InputVD59.rows[i]))}

\* C11: mkbdDiwajibkan of calculateMKBD is 25,000,000,000 when the VD59
\* table is absent or none of its rows carries the required-MKBD label, and
\* otherwise the parsed Total cell of the first row that carries it
C11_RequiredIsFirstLabelledOrDefault ==
  \A k \in 1..Len(calcResults) :
    calcResults[k].mkbdDiwajibkan
      = IF InputPos(ReVD59) = 0 THEN DefaultMKBDDiwajibkan
        ELSE IF RequiredLabelled = {} THEN DefaultMKBDDiwajibkan
        ELSE parseNumericValue(Get(InputVD59.rows[FirstIndex(RequiredLabelled)], "Total"))

FormulaRow12 == "VD510: Total Portofolio (Nilai_Rangking_Liabilities)"
FormulaWorkingCapital ==
  {"TOTAL ASET LANCAR - TOTAL LIABILITAS - TOTAL RANKING LIABILITIES",
   "Sama persis dengan TOTAL MODAL KERJA (Row 13)"}

\* C12: on the same input tables every value applyMKBDCorrections writes
\* is the figure calculateMKBD reports: totalRankingLiabilities in row 12,
\* modalKerja in the working-capital rows, mkbdDisesuaikan in row 102 and
\* lebihKurangMKBD in row 104
C12_CorrectionsWriteCalculatedFigures ==
  \A k \in 1..Len(corrResults) :
    \A c \in 1..Len(calcResults) :
      \A i \in 1..Len(corrResults[k].vd59Updates) :
        LET u == corrResults[k].vd59Updates[i]
            r == calcResults[c]
        IN /\ u.formula = FormulaRow12 => u.newValue = r.totalRankingLiabilities
           /\ u.formula \in FormulaWorkingCapital => u.newValue = r.modalKerja
           /\ u.formula = FormulaRow102 => u.newValue = r.mkbdDisesuaikan
           /\ u.formula = FormulaRow104 => u.newValue = r.lebihKurangMKBD

\* the k-th correction log holds a record of value v for target t
Recorded(k, t, v) ==
  \E i \in 1..Len(corrResults[k].vd59Updates) :
    /\ corrResults[k].vd59Updates[i].rowIndex = Located(InputVD59.rows, t.re, t.pref)
    /\ corrResults[k].vd59Updates[i].column = t.col
    /\ corrResults[k].vd59Updates[i].newValue = v

\* C13: with the VD59 form present and the concentration table absent the
\* Correction Pass runs on VD59 with a ranking charge of 0: the located
\* working-capital rows receive totalAsetLancar - totalLiabilitas, row 102
\* that value less the haircut sum, row 104 is overwritten too, and each
\* overwrite is in the returned log
C13_AbsentConcentrationTableCountsZero ==
  \A k \in 1..Len(corrResults) :
    (InputPos(ReVD59) # 0 /\ InputPos(ReVD510) = 0) =>
      \A wc \in {InputAsetLancar - InputLiabilitas} :
        \A g \in 2..Len(CorrectionTargets) :
          LET t == CorrectionTargets[g]
              p == Located(InputVD59.rows, t.re, t.pref)
          IN (p # 0 /\ HasHeader(InputVD59, t.col)) =>
               CASE t.pref = Row102 ->
                      /\ Recorded(k, t, wc - InputHaircutSum)
                      /\ Get(CorrectedVD59(k).rows[p], t.col) = Num(wc - InputHaircutSum)
                 [] t.pref = Row104 ->
                      \E v \in {parseNumericValue(Get(CorrectedVD59(k).rows[p], t.col))} :
                        Recorded(k, t, v)
                 [] OTHER ->
                      /\ Recorded(k, t, wc)
                      /\ Get(CorrectedVD59(k).rows[p], t.col) = Num(wc)

\* the 1-based positions, in row order, of the concentration-table rows the
\* ranking pass is to charge: group market value above 0 and an instrument
\* code that is no placeholder
ChargeableRows(rows) ==
  SelectSeq([i \in 1..Len(rows) |-> i],
            LAMBDA i : /\ GroupMarketValue(rows[i]) > 0
                       /\ ~IncludesOther(StringOf(Coalesce(Get(rows[i], "Kode Efek"),
                                                            Str(<<>>)))))

\* C14: when the ranking pass runs, its items are, in row order and with
\* their 1-based row position, exactly the rows with a group market value
\* above 0 and a code without 'other'; a row with a zero or negative value
\* or a placeholder code has no item
C14_OneItemPerChargeableRow ==
  \A k \in 1..Len(calcResults) :
    (InputPos(ReVD510) # 0 /\ InputEkuitas > 0) =>
      [j \in 1..Len(calcResults[k].vd510Details) |-> calcResults[k].vd510Details[j].rowIndex]
        = ChargeableRows(input[InputPos(ReVD510)].rows)

\* C15: the market value an item is charged on is the pre-aggregated group
\* market value when the table has that field and otherwise the value of
\* the row's own 'nilai pasar wajar' column, whichever column that is
C15_MarketValueFromGroupFieldOrOwnColumn ==
  \A k \in 1..Len(calcResults) :
    \A j \in 1..Len(calcResults[k].vd510Details) :
      calcResults[k].vd510Details[j].formula[2]
        = GroupMarketValue(input[InputPos(ReVD510)].rows[calcResults[k].vd510Details[j].rowIndex])

\* sum of the charges of a sequence of items, 0 for the empty sequence
RECURSIVE SumOfCharges(_)
SumOfCharges(details) ==
  IF details = <<>> THEN 0
  ELSE Head(details).nilaiRankingLiabilities + SumOfCharges(Tail(details))

\* C16: totalRankingLiabilities is the sum of nilaiRankingLiabilities over
\* vd510Details, 0 when there is no item, and a step
\* 'pass2_ranking_liabilities' reports that total and the number of items
C16_TotalIsSumOfItemCharges ==
  \A k \in 1..Len(calcResults) :
    /\ calcResults[k].totalRankingLiabilities = SumOfCharges(calcResults[k].vd510Details)
    /\ \A i \in 1..Len(calcResults[k].calculationSteps) :
         calcResults[k].calculationSteps[i].id = "pass2_ranking_liabilities" =>
           /\ calcResults[k].calculationSteps[i].result
                = SumOfCharges(calcResults[k].vd510Details)
           /\ calcResults[k].calculationSteps[i].inputValues.itemCount
                = Len(calcResults[k].vd510Details)

\* two items, one charged -3 and one 6, and the step reporting their total
C16_Witness ==
  \E k \in 1..Len(calcResults) :
    /\ Len(calcResults[k].vd510Details) = 2
    /\ calcResults[k].vd510Details[1].nilaiRankingLiabilities = -3
    /\ calcResults[k].vd510Details[2].nilaiRankingLiabilities = 6
    /\ calcResults[k].totalRankingLiabilities = 3
    /\ \E i \in 1..Len(calcResults[k].calculationSteps) :
         /\ calcResults[k].calculationSteps[i].id = "pass2_ranking_liabilities"
         /\ calcResults[k].calculationSteps[i].result = 3
         /\ calcResults[k].calculationSteps[i].inputValues.itemCount = 2

\* C17: when no table of the set resolves as VD52, calculateMKBD returns
\* totalEkuitas 0, totalRankingLiabilities 0 and no item
C17_NoEquityTableNoRanking ==
  \A k \in 1..Len(calcResults) :
    InputPos(ReVD52) = 0 =>
      /\ calcResults[k].totalEkuitas = 0
      /\ calcResults[k].totalRankingLiabilities = 0
      /\ calcResults[k].vd510Details = <<>>

\* a result for a set with assets, a VD59 form and a concentration table
\* whose rows would be charged, and without VD52
C17_Witness ==
  \E k \in 1..Len(calcResults) :
    /\ InputPos(ReVD52) = 0
    /\ InputPos(ReVD510) # 0
    /\ InputPos(ReVD59) # 0
    /\ ChargeableRows(input[InputPos(ReVD510)].rows) # <<>>
    /\ calcResults[k].totalAsetLancar = 500
    /\ calcResults[k].modalKerja = 500

\* C18: in every result of calculateMKBD, for a set with or without the
\* VD59 form, mkbdDisesuaikan = modalKerja - haircutSum and
\* lebihKurangMKBD = mkbdDisesuaikan - mkbdDiwajibkan
C18_AdjustedAndSurplusIdentities ==
  \A k \in 1..Len(calcResults) :
    /\ calcResults[k].mkbdDisesuaikan
         = calcResults[k].modalKerja - calcResults[k].haircutSum
    /\ calcResults[k].lebihKurangMKBD
         = calcResults[k].mkbdDisesuaikan - calcResults[k].mkbdDiwajibkan

\* a result for a set with the VD59 form, a haircut sum of 5 and a required
\* value of 300 read from the form: 388 - 5 = 383 and 383 - 300 = 83
C18_Witness ==
  \E k \in 1..Len(calcResults) :
    /\ InputPos(ReVD59) # 0
    /\ calcResults[k].modalKerja = 388
    /\ calcResults[k].haircutSum = 5
    /\ calcResults[k].mkbdDiwajibkan = 300
    /\ calcResults[k].mkbdDisesuaikan = 383
    /\ calcResults[k].lebihKurangMKBD = 83

\* C19: the haircut sum of calculateMKBD and the one the Correction Pass
\* deducts in row 102 are both the sum of the parsed Total cells of rows
\* 33..92 of the uploaded VD59 form: rows 32 and 93 and the values the
\* pass writes stay out, and the sum is 0 without a Total column
C19_HaircutSumOverOriginalRows ==
  /\ \A k \in 1..Len(calcResults) :
       InputPos(ReVD59) # 0 => calcResults[k].haircutSum = InputHaircutSum
  /\ \A k \in 1..Len(corrResults) :
       CorrectionPassRuns =>
         \A i \in 1..Len(corrResults[k].vd59Updates) :
           corrResults[k].vd59Updates[i].formula = FormulaRow102 =>
             corrResults[k].vd59Updates[i].newValue = InputWorkingCapital - InputHaircutSum

\* the calls of findRowIndexByText on a VD59 form: the eight of the
\* Correction Pass and the same patterns without a preferred position
FinderCalls ==
  {[re |-> CorrectionTargets[g].re, pref |-> CorrectionTargets[g].pref] :
     g \in 1..Len(CorrectionTargets)}
  \cup {[re |-> CorrectionTargets[g].re, pref |-> 0] : g \in 1..Len(CorrectionTargets)}
  \cup {[re |-> ReRow103, pref |-> pf] : pf \in {0, Row103}}

\* the 1-based positions of the rows of the caller's VD59 form whose text
\* matches a pattern
MatchingRows(re) ==
  {i \in 1..Len(InputVD59.rows) : PatternTest(re, RowText(InputVD59.rows[i]))}

\* C20: findRowIndexByText returns the row at the 1-based preferred
\* position when that position is inside the table and its row matches,
\* whether or not an earlier row matches; otherwise the first matching
\* row; and 'not found' exactly when no row matches
C20_PreferredThenFirstMatch ==
  InputPos(ReVD59) # 0 =>
    \A c \in FinderCalls :
      \A r \in {findRowIndexByText(heap, sheets[InputPos(ReVD59)], c.re, c.pref)} :
        \A matching \in {MatchingRows(c.re)} :
          /\ c.pref \in matching => r = c.pref - 1
          /\ (c.pref \notin matching /\ matching # {}) =>
               /\ r + 1 \in matching
               /\ \A i \in matching : r + 1 <= i
          /\ (r = NullIdx) <=> (matching = {})

\* the row-12 label is in rows 5 and 12 and the pass wrote to row 12; the
\* same pattern without a preferred position designates row 5
C20_Witness ==
  /\ InputPos(ReVD59) # 0
  /\ MatchingRows(ReRow12) = {RepeatedAt, Row12}
  /\ Len(corrResults) >= 1
  /\ Len(corrResults[1].vd59Updates) = 7
  /\ corrResults[1].vd59Updates[1].rowIndex = Row12
  /\ findRowIndexByText(heap, sheets[InputPos(ReVD59)], ReRow12, 0) = RepeatedAt - 1

\* the cell is a number or a string that spells one
ParsesToNumber(c) == c.t = "num" \/ (c.t = "str" /\ c.s = <<"#">>)

\* position in a row of its last cell that parses to a number, 0 if none
LastNumericCell(row) ==
  LET numeric == {i \in 1..Len(row) : ParsesToNumber(row[i].v)}
  IN IF numeric = {} THEN 0 ELSE CHOOSE i \in numeric : \A j \in numeric : j <= i

\* the first row of table pos of the input that carries a label, 0 if none
FirstLabelled(pos, re) ==
  LET hits == {i \in 1..Len(input[pos].rows) : PatternTest(re, RowText(input[pos].rows[i]))}
  IN IF hits = {} THEN 0 ELSE FirstIndex(hits)

\* the quantity the claim expects of a labelled row without a Saldo value
FallbackHolds(pos, re, extracted) ==
  \A p \in {IF pos = 0 THEN 0 ELSE FirstLabelled(pos, re)} :
    (/\ p # 0
     /\ IsNullish(Get(input[pos].rows[p], "Saldo"))
     /\ LastNumericCell(input[pos].rows[p]) # 0) =>
      extracted = parseNumericValue(
                    input[pos].rows[p][LastNumericCell(input[pos].rows[p])].v)

\* C21: when the labelled row has no Saldo value, because the table has no
\* Saldo column or the cell is empty, the quantity extracted is the value of
\* the last cell of the row that parses to a number, whatever text cell
\* follows it
C21_FallbackToLastNumericCell ==
  \A k \in 1..Len(calcResults) :
    /\ FallbackHolds(InputPos(ReVD51), ReTotalAsetLancar, calcResults[k].totalAsetLancar)
    /\ FallbackHolds(InputPos(ReVD52), ReTotalLiabilitas, calcResults[k].totalLiabilitas)
    /\ FallbackHolds(InputPos(ReVD52), ReTotalEkuitas, calcResults[k].totalEkuitas)

\* the source names of the audit steps and the role each stands for
StepSources ==
  { [source |-> "VD51", re |-> ReVD51], [source |-> "VD52", re |-> ReVD52],
    [source |-> "VD59", re |-> ReVD59], [source |-> "VD510", re |-> ReVD510] }

\* the extraction steps, one per base quantity, with the role of the table
\* the quantity is read from
ExtractionSteps ==
  { [id |-> "pass1_aset_lancar", re |-> ReVD51],
    [id |-> "pass1_liabilitas", re |-> ReVD52],
    [id |-> "pass1_total_ekuitas", re |-> ReVD52],
    [id |-> "pass1_mkbd_diwajibkan", re |-> ReVD59] }

\* C22: calculationSteps has a step of source VD51, VD52, VD59 or VD510
\* only if that table was located in the input, and exactly one extraction
\* step per base quantity of every located table
C22_StepSourcesAreLocatedTables ==
  \A k \in 1..Len(calcResults) :
    /\ \A i \in 1..Len(calcResults[k].calculationSteps) :
         \A src \in StepSources :
           calcResults[k].calculationSteps[i].source = src.source => InputPos(src.re) # 0
    /\ \A e \in ExtractionSteps :
         InputPos(e.re) # 0 =>
           Cardinality({i \in 1..Len(calcResults[k].calculationSteps) :
                          calcResults[k].calculationSteps[i].id = e.id}) = 1

\* no table of the input resolves as any of the four forms
NoRoleResolved ==
  \A re \in {ReVD51, ReVD52, ReVD59, ReVD510} : InputPos(re) = 0

\* C23: for a table set in which no table matches a role, the empty
\* sequence included, calculateMKBD returns all quantities 0, mkbdDiwajibkan
\* 25,000,000,000, lebihKurangMKBD -25,000,000,000 and no item and no
\* update, and applyMKBDCorrections returns the input tables and an empty
\* log
C23_NoRoleYieldsDefaults ==
  NoRoleResolved =>
    /\ \A k \in 1..Len(calcResults) :
         /\ calcResults[k].totalAsetLancar = 0
         /\ calcResults[k].totalLiabilitas = 0
         /\ calcResults[k].totalEkuitas = 0
         /\ calcResults[k].totalRankingLiabilities = 0
         /\ calcResults[k].haircutSum = 0
         /\ calcResults[k].mkbdDiwajibkan = DefaultMKBDDiwajibkan
         /\ calcResults[k].lebihKurangMKBD = 0 - DefaultMKBDDiwajibkan
         /\ calcResults[k].vd510Details = <<>>
         /\ calcResults[k].vd59Updates = <<>>
    /\ \A k \in 1..Len(corrResults) :
         /\ corrResults[k].tables = input
         /\ corrResults[k].vd59Updates = <<>>

\* both entry points returned for three tables of unrelated names that hold
\* the labelled rows of the forms
C23_Witness ==
  /\ NoRoleResolved
  /\ Len(input) = 3
  /\ Len(calcResults) >= 1
  /\ Len(corrResults) >= 1
  /\ calcResults[1].lebihKurangMKBD = -250
  /\ corrResults[1].tables = input

\* the first table of the input, in input order, whose name the pattern of
\* the role numbered digits accepts (0: no table)
FirstNamed(digits) ==
  IF \A i \in 1..Len(input) : ~RoleTest(Spelling(input[i].sheetName), digits) THEN 0
  ELSE CHOOSE i \in 1..Len(input) :
         /\ RoleTest(Spelling(input[i].sheetName), digits)
         /\ \A j \in 1..(i - 1) : ~RoleTest(Spelling(input[j].sheetName), digits)

\* the labelled amount the extraction reads from table pos of the input
AmountAt(pos, re) ==
  IF pos = 0 THEN 0
  ELSE extractLabelled(input[pos].rows, re, findColumnOptional(input[pos].headers, ReSaldo))

\* C24: each role resolves to the first table, in input order, whose name
\* matches the role's pattern and to no table when none matches; 'VD5-10',
\* 'VD5_10', 'vd510' and 'formulir 10' are names of the concentration table
\* and of no other role. The extracted amounts, the ranking items and the
\* corrected tables are those of the tables so resolved
C24_RolesResolveToFirstMatchingTable ==
  /\ \A n \in {"VD5-10", "VD5_10", "vd510", "formulir 10"} :
       /\ RoleTest(Spelling(n), <<"1", "0">>)
       /\ \A d \in {<<"1">>, <<"2">>, <<"9">>} : ~RoleTest(Spelling(n), d)
       /\ \A i \in 1..Len(input) :
            input[i].sheetName = n =>
              FirstNamed(<<"1", "0">>) \in 1..i
  /\ \A p1 \in {FirstNamed(<<"1">>)}, p2 \in {FirstNamed(<<"2">>)},
        p9 \in {FirstNamed(<<"9">>)}, p10 \in {FirstNamed(<<"1", "0">>)} :
       /\ findSheets(sheets) = [vd51Sheet |-> p1, vd59Sheet |-> p9,
                                vd510Sheet |-> p10, vd52Sheet |-> p2]
       /\ \A k \in 1..Len(calcResults) :
            /\ calcResults[k].totalAsetLancar = AmountAt(p1, ReTotalAsetLancar)
            /\ calcResults[k].totalLiabilitas = AmountAt(p2, ReTotalLiabilitas)
            /\ calcResults[k].totalEkuitas = AmountAt(p2, ReTotalEkuitas)
            /\ p10 = 0 => calcResults[k].vd510Details = <<>>
            /\ \A j \in 1..Len(calcResults[k].vd510Details) :
                 calcResults[k].vd510Details[j].rowIndex \in 1..Len(input[p10].rows)
            /\ p9 = 0 => calcResults[k].vd59Updates = <<>>
       /\ \A k \in 1..Len(corrResults) :
            \A i \in 1..Len(input) :
              i \notin {p9, p10} => corrResults[k].tables[i] = input[i]

\* the concentration table is named 'formulir 10' and stands first, two
\* tables are named as VD52 and the equity of the first of them, 20, is
\* the one extracted and charged against; the second holds 0
C24_Witness ==
  /\ Len(input) = 5
  /\ input[1].sheetName = "formulir 10"
  /\ FirstNamed(<<"1", "0">>) = 1
  /\ \E i, j \in 1..Len(input) :
       /\ i < j /\ FirstNamed(<<"2">>) = i
       /\ RoleTest(Spelling(input[j].sheetName), <<"2">>)
       /\ AmountAt(i, ReTotalEkuitas) = 20 /\ AmountAt(j, ReTotalEkuitas) = 0
  /\ \E k \in 1..Len(calcResults) :
       /\ calcResults[k].totalEkuitas = 20
       /\ calcResults[k].vd510Details # <<>>
  /\ \E k \in 1..Len(corrResults) : corrResults[k].tables[1] # input[1]

\* C25: whatever the registry holds when calculateMKBD or
\* applyMKBDCorrections is called, the result for the caller's tables is
\* exactly the result of a call made with the default registry
C25_ResultsIndependentOfRegistry ==
  /\ \A j, k \in 1..Len(calcResults) :
       formulasAtCall.calculateMKBD[j] = DEFAULT_FORMULAS => calcResults[k] = calcResults[j]
  /\ \A j, k \in 1..Len(corrResults) :
       formulasAtCall.applyMKBDCorrections[j] = DEFAULT_FORMULAS =>
         /\ corrResults[k].tables = corrResults[j].tables
         /\ corrResults[k].vd59Updates = corrResults[j].vd59Updates

\* both functions were called with the default registry and again after
\* updateFormula replaced the calculate function of modalKerja; the two
\* calculations return the working capital 388 and the corrections log records
C25_Witness ==
  /\ Len(calcResults) = 2 /\ Len(corrResults) = 2
  /\ formulasAtCall.calculateMKBD[1] = DEFAULT_FORMULAS
  /\ formulasAtCall.calculateMKBD[2]["modalKerja"].calculate = "custom"
  /\ formulasAtCall.applyMKBDCorrections[1] = DEFAULT_FORMULAS
  /\ formulasAtCall.applyMKBDCorrections[2]["modalKerja"].calculate = "custom"
  /\ calcResults[2].modalKerja = 388
  /\ corrResults[2].vd59Updates # <<>>

\* C30: getFormulas returns a map whose keys are the three default ids; just
\* after resetFormulas every entry is its default definition; a map that
\* getFormulas returned is not changed by later registry calls
C30_RegistryKeepsDefaultIds ==
  /\ \A r \in {getFormulas(formulaMaps, customFormulas)} :
       DOMAIN r.maps[r.returned] = {"modalKerja", "rankingLiabilitiesPerItem", "mkbdDisesuaikan"}
  /\ (formulaCalls # <<>> /\ formulaCalls[Len(formulaCalls)] = "resetFormulas") =>
       \A r \in {getFormulas(formulaMaps, customFormulas)} : r.maps[r.returned] = DEFAULT_FORMULAS
  /\ \A i \in 1..Len(returnedFormulas) :
       formulaMaps[returnedFormulas[i].map] = returnedFormulas[i].value

\* a row without its cells of the columns named
Without(row, columns) == SelectSeq(row, LAMBDA c : c.k \notin columns)

\* the rows of the caller's VD59 form that the Correction Pass locates as
\* targets
TargetRows ==
  {Located(InputVD59.rows, CorrectionTargets[g].re, CorrectionTargets[g].pref) :
     g \in 1..Len(CorrectionTargets)} \ {0}

\* C26: applyMKBDCorrections returns as many tables as it was given, in the
\* same order, with the same names, headers and numbers of rows; a cell
\* differs from the input only in the ranking-liability column of the
\* concentration table or in the Jumlah/Total cells of located VD59 target
\* rows; every other table is returned equal to the input
C26_CorrectionsKeepShape ==
  \A k \in 1..Len(corrResults) :
    \A out \in {corrResults[k].tables}, p9 \in {FirstNamed(<<"9">>)},
       p10 \in {FirstNamed(<<"1", "0">>)} :
      /\ Len(out) = Len(input)
      /\ \A i \in 1..Len(input) :
           /\ out[i].sheetName = input[i].sheetName
           /\ out[i].headers = input[i].headers
           /\ Len(out[i].rows) = Len(input[i].rows)
           /\ i \notin {p9, p10} => out[i] = input[i]
           /\ i = p10 =>
                \A r \in 1..Len(input[i].rows) :
                  Without(out[i].rows[r], {"Nilai Rangking Liabilities"})
                    = Without(input[i].rows[r], {"Nilai Rangking Liabilities"})
           /\ i = p9 =>
                \A targets \in {TargetRows}, r \in 1..Len(input[i].rows) :
                  IF r \in targets
                    THEN Without(out[i].rows[r], {"Jumlah", "Total"})
                           = Without(input[i].rows[r], {"Jumlah", "Total"})
                    ELSE out[i].rows[r] = input[i].rows[r]

\* a result in which the concentration table and the VD59 form were both
\* corrected and the two other tables came back as they were
C26_Witness ==
  \E k \in 1..Len(corrResults) :
    /\ Len(input) = 4
    /\ FirstNamed(<<"9">>) = 3 /\ FirstNamed(<<"1", "0">>) = 4
    /\ corrResults[k].tables[3] # input[3]
    /\ corrResults[k].tables[4] # input[4]
    /\ Len(corrResults[k].vd59Updates) = 7
    /\ corrResults[k].tables[1] = input[1]
    /\ corrResults[k].tables[2] = input[2]

\* the ranking-liability cell of a row of a concentration table
ChargeCell(row) == parseNumericValue(Get(row, "Nilai Rangking Liabilities"))

\* the sum of the ranking-liability cells that differ between the rows
\* before and the rows after, the row at position total left out: the
\* per-item charges written
RECURSIVE SumWritten(_, _, _, _)
SumWritten(before, after, total, r) ==
  IF r > Len(before) THEN 0
  ELSE (IF r # total /\ Get(after[r], "Nilai Rangking Liabilities")
                          # Get(before[r], "Nilai Rangking Liabilities")
          THEN ChargeCell(after[r]) ELSE 0)
       + SumWritten(before, after, total, r + 1)

\* C27: when applyMKBDCorrections corrects both tables, the ranking-liability
\* cell of the 'Total Portofolio' row of the corrected concentration table,
\* the value written to the ranking-total row of the VD59 form and the sum of
\* the charges written into the instrument rows are one number
C27_RankingTotalConsistentAcrossForms ==
  \A k \in 1..Len(corrResults) :
    CorrectionPassRuns =>
      \A before \in {input[InputPos(ReVD510)].rows},
         after \in {corrResults[k].tables[InputPos(ReVD510)].rows} :
        \A total \in {Located(before, ReTotalPortofolio, 0)} :
          total # 0 =>
            /\ \A i \in 1..Len(corrResults[k].vd59Updates) :
                 corrResults[k].vd59Updates[i].formula = FormulaRow12 =>
                   /\ corrResults[k].vd59Updates[i].newValue = ChargeCell(after[total])
                   /\ parseNumericValue(
                        Get(CorrectedVD59(k).rows[corrResults[k].vd59Updates[i].rowIndex],
                            "Jumlah")) = ChargeCell(after[total])
            /\ SumWritten(before, after, total, 1) = ChargeCell(after[total])

\* the formula text the Correction Pass records for each of its targets
TargetFormula(g) ==
  CASE g = 1 -> FormulaRow12
    [] g = 2 -> "TOTAL ASET LANCAR - TOTAL LIABILITAS - TOTAL RANKING LIABILITIES"
    [] g \in {3, 4, 5} -> "Sama persis dengan TOTAL MODAL KERJA (Row 13)"
    [] g = 6 -> FormulaRow102
    [] OTHER -> FormulaRow104

\* the rows of the caller's VD59 form located for the targets, in the order
\* of the steps of the Correction Pass
TargetPositions ==
  [g \in 1..Len(CorrectionTargets) |->
     Located(InputVD59.rows, CorrectionTargets[g].re, CorrectionTargets[g].pref)]

\* record u is the record of target g
RecordOf(u, g, positions) ==
  /\ u.rowIndex = positions[g]
  /\ u.column = CorrectionTargets[g].col
  /\ u.formula = TargetFormula(g)

\* C28: the log of applyMKBDCorrections holds at most 7 records, each the
\* record of one target, in the order ranking total, working capital (13,
\* 15, 18, 20), adjusted MKBD, surplus/deficit; no two records address the
\* same cell; the Total cell of the row located as required MKBD is in no
\* record and is returned as it was
C28_LogFollowsTargetOrder ==
  \A k \in 1..Len(corrResults) :
    InputPos(ReVD59) # 0 =>
      \A log \in {corrResults[k].vd59Updates}, positions \in {TargetPositions},
         p103 \in {Located(InputVD59.rows, ReRow103, Row103)} :
        /\ Len(log) <= 7
        /\ \A i \in 1..Len(log) : \E g \in 1..7 : RecordOf(log[i], g, positions)
        /\ \A i, j \in 1..Len(log) :
             i < j =>
               /\ \E gi, gj \in 1..7 :
                    gi < gj /\ RecordOf(log[i], gi, positions) /\ RecordOf(log[j], gj, positions)
               /\ <<log[i].rowIndex, log[i].column>> # <<log[j].rowIndex, log[j].column>>
        /\ p103 # 0 =>
             /\ \A i \in 1..Len(log) : ~(log[i].rowIndex = p103 /\ log[i].column = "Total")
             /\ Get(CorrectedVD59(k).rows[p103], "Total") = Get(InputVD59.rows[p103], "Total")

\* a log of seven records for the rows 12, 13, 15, 18, 20, 102 and 104, the
\* surplus/deficit having been computed from the 300 of row 103
C28_Witness ==
  \E k \in 1..Len(corrResults) :
    /\ InputPos(ReVD59) # 0
    /\ [i \in 1..Len(corrResults[k].vd59Updates) |-> corrResults[k].vd59Updates[i].rowIndex]
         = <<12, 13, 15, 18, 20, 102, 104>>
    /\ Get(CorrectedVD59(k).rows[103], "Total") = Num(300)
    /\ corrResults[k].vd59Updates[7].newValue = corrResults[k].vd59Updates[6].newValue - 300

\* C29: applyMKBDCorrections applied to the tables a previous call returned
\* returns tables equal to them cell for cell, and every record of its log
\* has oldValue = newValue
C29_CorrectedTablesAreFixedPoint ==
  \A k \in 1..Len(corrResults) :
    \A second \in {applyMKBDCorrections(heap, corrResults[k].sheets)} :
      /\ DerefAll(second.heap, second.sheets) = corrResults[k].tables
      /\ \A i \in 1..Len(second.vd59Updates) :
           second.vd59Updates[i].oldValue = second.vd59Updates[i].newValue

====
